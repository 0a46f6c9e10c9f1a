--------------------------- MODULE QuestionProofs ---------------------------
(***************************************************************************)
(* Proofs about the questions one asks of a bundle (module Investigation): *)
(* what the timeline of an analysis tells, who is upstream and downstream, *)
(* the critical path, and the graph of the lineage.  What a recursive      *)
(* function computes is proved from its value at each argument (the lemmas *)
(* named ...Unfolds), one function at a time.                              *)
(***************************************************************************)
EXTENDS InvestigationProofs

-----------------------------------------------------------------------------
(* Walks.  adj[x] are the ids one edge away from x; W[n] those that a walk of 1 .. n edges     *)
(* from the root leads to.                                                                     *)
AreWalks(V, adj, root, W) ==
    /\ adj \in [V -> SUBSET V] /\ root \in V /\ W \in [Nat -> SUBSET V]
    /\ W[0] = {}
    /\ \A n \in Nat : W[n + 1] = W[n] \cup UNION {adj[x] : x \in W[n] \cup {root}}

\* A longer walk leads wherever a shorter one does.
LEMMA WalksGrow ==
    ASSUME NEW V, NEW adj, NEW root, NEW W, AreWalks(V, adj, root, W)
    PROVE  \A m, n \in Nat : m <= n => W[m] \subseteq W[n]
<1> SUFFICES ASSUME NEW m \in Nat PROVE \A n \in Nat : m <= n => W[m] \subseteq W[n]
  OBVIOUS
<1> DEFINE T == {n \in Nat : m <= n => W[m] \subseteq W[n]}
<1>1. 0 \in T
  <2>1. m <= 0 => m = 0
    OBVIOUS
  <2> QED  BY <2>1
<1>2. ASSUME NEW n \in Nat, n \in T PROVE n + 1 \in T
  <2>1. W[n] \subseteq W[n + 1]
    BY DEF AreWalks
  <2>2. m <= n + 1 => m <= n \/ m = n + 1
    OBVIOUS
  <2> QED  BY <1>2, <2>1, <2>2
<1> HIDE DEF T
<1>3. Nat \subseteq T
  BY <1>1, <1>2, SetInduction
<1> QED  BY <1>3 DEF T

(* Entries of a traversal: the id, how far it is and whose neighbour it was found as. *)
FoundIn(V) == [id : V, depth : Nat \ {0}, parent : V]
IsFarAs(W, e) == e.id \in W[e.depth] /\ (e.depth > 1 => e.id \notin W[e.depth - 1])
AreFound(V, W, f) ==
    /\ f \in Seq(FoundIn(V)) /\ DistinctIds(f)
    /\ \A i \in 1 .. Len(f) : IsFarAs(W, f[i])

\* What the members of a list of entries are.
LEMMA FoundOf ==
    ASSUME NEW S, NEW f \in Seq(S)
    PROVE  /\ Len(f) \in Nat /\ DOMAIN f = 1 .. Len(f) /\ \A i \in 1 .. Len(f) : f[i] \in S
           /\ FoundIds(f) = {f[i].id : i \in 1 .. Len(f)}
BY LenProperties DEF FoundIds

\* Where nothing nearer than p is left to look at, whatever is that near was found.
LEMMA NearIsFound ==
    ASSUME NEW V, NEW adj, NEW root, NEW W, AreWalks(V, adj, root, W),
           NEW f, AreFound(V, W, f), adj[root] \subseteq FoundIds(f), NEW p \in Nat,
           \A i \in 1 .. Len(f) : f[i].depth < p => adj[f[i].id] \subseteq FoundIds(f)
    PROVE  W[p] \subseteq FoundIds(f)
<1>1. /\ Len(f) \in Nat /\ \A i \in 1 .. Len(f) : f[i] \in FoundIn(V)
      /\ FoundIds(f) = {f[i].id : i \in 1 .. Len(f)}
  BY FoundOf DEF AreFound
<1>2. \A i \in 1 .. Len(f) : IsFarAs(W, f[i]) /\ f[i].depth \in Nat \ {0} /\ f[i].id \in V
  BY <1>1 DEF AreFound, FoundIn
<1> DEFINE T == {n \in 0 .. p : W[n] \subseteq FoundIds(f)}
<1>3. 0 \in T
  BY DEF AreWalks
<1>4. ASSUME NEW n \in 1 .. p, n - 1 \in T PROVE n \in T
  <2>1. n - 1 \in Nat /\ (n - 1) + 1 = n /\ n \in 0 .. p
    OBVIOUS
  <2>2. W[n] = W[n - 1] \cup UNION {adj[x] : x \in W[n - 1] \cup {root}}
    BY <2>1 DEF AreWalks
  <2>3. ASSUME NEW x \in W[n - 1] PROVE adj[x] \subseteq FoundIds(f)
    <3>1. PICK i \in 1 .. Len(f) : f[i].id = x
      BY <1>1, <1>4
    <3>2. ASSUME f[i].depth > n - 1 PROVE FALSE
      <4>1. f[i].depth - 1 \in Nat /\ n - 1 <= f[i].depth - 1 /\ n # 0
        BY <1>2, <3>2, <2>1
      <4>2. W[n - 1] \subseteq W[f[i].depth - 1]
        BY <2>1, <4>1, WalksGrow
      <4>3. f[i].depth > 1
        <5>1. n > 1
          <6>1. n = 1 => W[n - 1] = {}
            BY DEF AreWalks
          <6> QED  BY <6>1
        <5> QED  BY <1>2, <3>2, <5>1
      <4> QED  BY <1>2, <3>1, <4>2, <4>3 DEF IsFarAs
    <3>3. f[i].depth < p
      BY <1>2, <3>2
    <3> QED  BY <3>1, <3>3
  <2> QED  BY <1>4, <2>1, <2>2, <2>3
<1> HIDE DEF T
<1>5. 0 .. p \subseteq T
  BY <1>3, <1>4, BoundedInduction
<1> QED  BY <1>5 DEF T

-----------------------------------------------------------------------------
(* Graphs.  A sequence is one of its own members. *)
LEMMA OwnMembers ==
    ASSUME NEW S, NEW q \in Seq(S)
    PROVE  /\ IsSequence(q) /\ ToSet(q) \subseteq S
           /\ Len(q) \in Nat /\ DOMAIN q = 1 .. Len(q) /\ \A i \in 1 .. Len(q) : q[i] \in ToSet(q)
<1>1. Len(q) \in Nat /\ DOMAIN q = 1 .. Len(q) /\ q = [i \in 1 .. Len(q) |-> q[i]]
      /\ \A i \in 1 .. Len(q) : q[i] \in S
  BY LenProperties
<1>2. \A i \in 1 .. Len(q) : q[i] \in ToSet(q)
  BY <1>1 DEF ToSet
<1>3. ToSet(q) \subseteq S
  BY <1>1 DEF ToSet
<1>4. q \in Seq(ToSet(q))
  BY <1>1, <1>2
<1> QED  BY <1>1, <1>2, <1>3, <1>4 DEF IsSequence

\* A sequence with one more member.
LEMMA AppendOwn ==
    ASSUME NEW q, IsSequence(q), NEW x
    PROVE  IsSequence(Append(q, x)) /\ ToSet(Append(q, x)) = ToSet(q) \cup {x}
<1> DEFINE S == ToSet(q) \cup {x}
<1>1. q \in Seq(S) /\ x \in S
  BY DEF IsSequence
<1> HIDE DEF S
<1>2. Append(q, x) \in Seq(S) /\ ToSet(Append(q, x)) = ToSet(q) \cup {x}
  BY <1>1, AppendMembers
<1> QED  BY <1>2, OwnMembers

\* Two sequences in a row.
LEMMA ConcatOwn ==
    ASSUME NEW p, NEW q, IsSequence(p), IsSequence(q)
    PROVE  IsSequence(p \o q) /\ ToSet(p \o q) = ToSet(p) \cup ToSet(q)
<1> DEFINE S == ToSet(p) \cup ToSet(q)
<1>1. p \in Seq(S) /\ q \in Seq(S)
  BY DEF IsSequence
<1> HIDE DEF S
<1>2. /\ p \o q \in Seq(S) /\ Len(p \o q) = Len(p) + Len(q)
      /\ \A i \in 1 .. Len(p) + Len(q) : (p \o q)[i] = IF i <= Len(p) THEN p[i] ELSE q[i - Len(p)]
  BY <1>1, ConcatProperties
<1>3. /\ Len(p) \in Nat /\ DOMAIN p = 1 .. Len(p) /\ \A i \in 1 .. Len(p) : p[i] \in ToSet(p)
      /\ Len(q) \in Nat /\ DOMAIN q = 1 .. Len(q) /\ \A i \in 1 .. Len(q) : q[i] \in ToSet(q)
      /\ DOMAIN (p \o q) = 1 .. Len(p \o q) /\ IsSequence(p \o q)
  BY <1>1, <1>2, OwnMembers
<1> DEFINE r == p \o q
<1> HIDE DEF r
<1>4. ASSUME NEW y \in ToSet(r) PROVE y \in ToSet(p) \cup ToSet(q)
  <2>1. PICK i \in 1 .. Len(p) + Len(q) : r[i] = y
    BY <1>2, <1>3 DEF ToSet, r
  <2>2. i <= Len(p) => i \in 1 .. Len(p)
    BY <1>3
  <2>3. ~(i <= Len(p)) => i - Len(p) \in 1 .. Len(q)
    BY <1>3
  <2> QED  BY <1>2, <1>3, <2>1, <2>2, <2>3 DEF r
<1>5. ASSUME NEW y \in ToSet(p) PROVE y \in ToSet(r)
  <2>1. PICK i \in 1 .. Len(p) : p[i] = y
    BY <1>3, <1>5 DEF ToSet
  <2>2. i \in 1 .. Len(p) + Len(q) /\ i <= Len(p)
    BY <1>3
  <2>3. r[i] = y /\ i \in DOMAIN r
    BY <1>2, <1>3, <2>1, <2>2 DEF r
  <2> QED  BY <2>3 DEF ToSet
<1>6. ASSUME NEW y \in ToSet(q) PROVE y \in ToSet(r)
  <2>1. PICK i \in 1 .. Len(q) : q[i] = y
    BY <1>3, <1>6 DEF ToSet
  <2>2. Len(p) + i \in 1 .. Len(p) + Len(q) /\ ~(Len(p) + i <= Len(p)) /\ (Len(p) + i) - Len(p) = i
    BY <1>3
  <2>3. r[Len(p) + i] = y /\ Len(p) + i \in DOMAIN r
    BY <1>2, <1>3, <2>1, <2>2 DEF r
  <2> QED  BY <2>3 DEF ToSet
<1> QED  BY <1>3, <1>4, <1>5, <1>6 DEF r

\* A sequence of one member for each place.
LEMMA OfPlaces ==
    ASSUME NEW n \in Nat, NEW q, q = [i \in 1 .. n |-> q[i]]
    PROVE  IsSequence(q) /\ Len(q) = n /\ DOMAIN q = 1 .. n
<1>1. DOMAIN q = 1 .. n
  BY Zenon
<1>2. \A i \in 1 .. n : q[i] \in ToSet(q)
  BY <1>1 DEF ToSet
<1> DEFINE S == ToSet(q)
<1> HIDE DEF S
<1>3. q \in [1 .. n -> S]
  BY <1>2 DEF S
<1>4. q \in Seq(S) /\ Len(q) = n
  BY <1>3
<1> QED  BY <1>1, <1>4 DEF IsSequence, S

\* Sequences one after the other.
LEMMA FlatHolds ==
    ASSUME NEW ss, NEW n \in Nat, ss = [i \in 1 .. n |-> ss[i]], \A i \in 1 .. n : IsSequence(ss[i])
    PROVE  /\ IsSequence(FlattenSeq(ss))
           /\ \A x : x \in ToSet(FlattenSeq(ss)) <=> \E j \in 1 .. n : x \in ToSet(ss[j])
<1>1. DOMAIN ss = 1 .. n /\ Len(ss) = n
  BY OfPlaces
<1> DEFINE S == UNION {ToSet(ss[i]) : i \in 1 .. n}
           T == Seq(S)
           Defines(f) == f = [i \in 1 .. Len(ss) |-> IF i = 1 THEN ss[i] ELSE f[i - 1] \o ss[i]]
           step == [i \in 1 .. n - 1 |-> [q \in T |-> q \o ss[i + 1]]]
<1>2. \A i \in 1 .. n : ss[i] \in T
  BY DEF IsSequence
<1>3. \A p, q \in T : p \o q \in T
  BY ConcatProperties
<1>4. CASE n = 0
  <2>1. ss = <<>>
    BY <1>1, <1>4
  <2>2. FlattenSeq(ss) = <<>>
    BY <2>1 DEF FlattenSeq
  <2>3. IsSequence(<<>>) /\ ToSet(<<>>) = {}
    BY DEF IsSequence, ToSet
  <2>4. 1 .. n = {}
    BY <1>4
  <2> QED  BY <2>2, <2>3, <2>4
<1>5. CASE n # 0
  <2>1. FlattenSeq(ss) = (CHOOSE f : Defines(f))[n]
    BY <1>1, <1>5 DEF FlattenSeq
  <2>2. step \in [1 .. n - 1 -> [T -> T]] /\ n - 1 \in Nat /\ ss[1] \in T
    <3>1. \A i \in 1 .. n - 1 : i + 1 \in 1 .. n
      BY <1>5
    <3> HIDE DEF T
    <3>2. \A i \in 1 .. n - 1 : \A q \in T : q \o ss[i + 1] \in T
      BY <1>2, <1>3, <3>1
    <3>3. n - 1 \in Nat /\ 1 \in 1 .. n
      BY <1>5
    <3> QED  BY <1>2, <3>2, <3>3
  <2>3. \A i \in 1 .. n - 1 : \A q \in T : step[i][q] = q \o ss[i + 1]
    OBVIOUS
  <2> HIDE DEF step, T
  <2>4. PICK f \in [0 .. n - 1 -> T] : f[0] = ss[1] /\ \A i \in 1 .. n - 1 : f[i] = step[i][f[i - 1]]
    <3> DEFINE first == ss[1]
               m == n - 1
    <3>1. first \in T /\ m \in Nat /\ step \in [1 .. m -> [T -> T]]
      BY <2>2
    <3> HIDE DEF first, m
    <3>2. \E f \in [0 .. m -> T] : f[0] = first /\ \A i \in 1 .. m : f[i] = step[i][f[i - 1]]
      BY ONLY <3>1, Iteration
    <3> QED  BY <3>2 DEF first, m
  <2> DEFINE g == [i \in 1 .. n |-> f[i - 1]]
  <2>5. \A i \in 1 .. n : g[i] = f[i - 1] /\ i - 1 \in 0 .. n - 1
    OBVIOUS
  <2>6. g = [i \in 1 .. n |-> g[i]]
    OBVIOUS
  <2> HIDE DEF g
  <2>7. \A i \in 1 .. n : g[i] = IF i = 1 THEN ss[i] ELSE g[i - 1] \o ss[i]
    <3> TAKE i \in 1 .. n
    <3>1. CASE i = 1
      BY <2>4, <2>5, <3>1
    <3>2. CASE i # 1
      <4>1. i - 1 \in 1 .. n - 1 /\ i - 1 \in 1 .. n /\ (i - 1) + 1 = i /\ (i - 1) - 1 \in 0 .. n - 1
        BY <3>2
      <4>2. g[i] = step[i - 1][f[(i - 1) - 1]] /\ g[i - 1] = f[(i - 1) - 1]
        BY <2>4, <2>5, <4>1
      <4>3. f[(i - 1) - 1] \in T
        BY <4>1
      <4> QED  BY <2>3, <3>2, <4>1, <4>2, <4>3
    <3> QED  BY <3>1, <3>2
  <2>8. Defines(g)
    BY <1>1, <2>6, <2>7
  <2> DEFINE h == CHOOSE x : Defines(x)
  <2>9. Defines(h)
    <3> HIDE DEF Defines
    <3> QED  BY <2>8
  <2> HIDE DEF h
  <2>10. \A i \in 1 .. n : h[i] = IF i = 1 THEN ss[i] ELSE h[i - 1] \o ss[i]
    BY <1>1, <2>9
  <2> DEFINE Members(q, i) == \A x : x \in ToSet(q) <=> \E j \in 1 .. i : x \in ToSet(ss[j])
             typed == {i \in 0 .. n : i = 0 \/ (IsSequence(h[i]) /\ Members(h[i], i))}
  <2>11. 0 \in typed
    OBVIOUS
  <2>12. ASSUME NEW i \in 1 .. n, i - 1 \in typed PROVE i \in typed
    <3>1. h[i] = IF i = 1 THEN ss[i] ELSE h[i - 1] \o ss[i]
      BY <2>10
    <3>2. IsSequence(ss[i])
      OBVIOUS
    <3>3. CASE i = 1
      <4>1. Members(ss[1], 1)
        OBVIOUS
      <4> QED  BY <3>1, <3>2, <3>3, <4>1
    <3>4. CASE i # 1
      <4>1. IsSequence(h[i - 1]) /\ Members(h[i - 1], i - 1) /\ i \in 0 .. n
        BY <2>12, <3>4
      <4>2. PICK q : q = h[i - 1] /\ h[i] = q \o ss[i]
        BY <3>1, <3>4
      <4>3. IsSequence(q \o ss[i]) /\ ToSet(q \o ss[i]) = ToSet(q) \cup ToSet(ss[i])
        BY <3>2, <4>1, <4>2, ConcatOwn
      <4>4. \A j : j \in 1 .. i <=> (j \in 1 .. i - 1 \/ j = i)
        OBVIOUS
      <4>5. Members(q \o ss[i], i)
        BY <4>1, <4>2, <4>3, <4>4
      <4> HIDE DEF Members
      <4> QED  BY <4>1, <4>2, <4>3, <4>5
    <3> QED  BY <3>3, <3>4
  <2> HIDE DEF typed, Members
  <2>13. 0 .. n \subseteq typed
    BY <2>11, <2>12, BoundedInduction
  <2>14. IsSequence(h[n]) /\ Members(h[n], n)
    BY <1>5, <2>13 DEF typed
  <2>15. FlattenSeq(ss) = h[n]
    BY <2>1 DEF h
  <2> QED  BY <2>14, <2>15 DEF Members
<1> QED  BY <1>4, <1>5

(* The ends of the edges of a graph are nodes of it, and no two nodes have the same id. *)
IsGraph(graph) ==
    /\ graph = [nodes |-> graph.nodes, edges |-> graph.edges, relations |-> graph.relations]
    /\ IsSequence(graph.nodes) /\ IsSequence(graph.edges) /\ DistinctIds(graph.nodes)
    /\ \A e \in ToSet(graph.edges) : e.from \in NodeIds(graph) /\ e.to \in NodeIds(graph)

\* A graph has the nodes whose ids it has.
LEMMA HasNodeId == ASSUME NEW graph, NEW id PROVE HasNode(graph, id) <=> id \in NodeIds(graph)
BY DEF HasNode, NodeIds, FoundIds

\* An edge joins a graph only between its nodes.
LEMMA AddEdgeKeeps ==
    ASSUME NEW graph, IsGraph(graph), NEW edge
    PROVE  LET g == AddEdge(graph, edge)
           IN  IsGraph(g) /\ g.nodes = graph.nodes
<1> DEFINE g == AddEdge(graph, edge)
<1>1. CASE g = graph
  BY <1>1
<1>2. CASE g # graph
  <2>1. /\ g = [graph EXCEPT !.edges = Append(@, edge)]
        /\ edge.from \in NodeIds(graph) /\ edge.to \in NodeIds(graph)
    BY <1>2, HasNodeId DEF AddEdge
  <2>2. g = [nodes |-> graph.nodes, edges |-> Append(graph.edges, edge), relations |-> graph.relations]
    BY <2>1 DEF IsGraph
  <2> HIDE DEF g
  <2>3. g.nodes = graph.nodes /\ g.edges = Append(graph.edges, edge) /\ g.relations = graph.relations
    BY <2>2
  <2>4. IsSequence(g.edges) /\ ToSet(g.edges) = ToSet(graph.edges) \cup {edge}
    BY <2>3, AppendOwn DEF IsGraph
  <2>5. NodeIds(g) = NodeIds(graph)
    BY <2>3 DEF NodeIds
  <2>6. IsGraph(g)
    BY <2>1, <2>2, <2>3, <2>4, <2>5 DEF IsGraph
  <2> QED  BY <2>3, <2>6 DEF g
<1> QED  BY <1>1, <1>2

\* Edges join one at a time.
LEMMA JoinedUnfolds ==
    ASSUME NEW graph, NEW edges, Len(edges) \in Nat
    PROVE  \E g : /\ g[0] = graph /\ Joined(graph, edges) = g[Len(edges)]
                  /\ \A n \in 1 .. Len(edges) : g[n] = AddEdge(g[n - 1], edges[n])
<1> DEFINE N == Len(edges)
           zero == graph
           F(q, n) == AddEdge(q, edges[n])
           Defines(f, m) == f = [n \in 0 .. m |-> IF n = 0 THEN zero ELSE F(f[n - 1], n)]
           done == {m \in 0 .. N : \E f : Defines(f, m)}
<1>1. N \in Nat
  OBVIOUS
<1>2. Joined(graph, edges) = (CHOOSE f : Defines(f, N))[N]
  BY DEF Joined
<1> HIDE DEF F, N, zero
<1>3. 0 \in done
  <2> DEFINE f == [n \in 0 .. 0 |-> zero]
  <2>1. Defines(f, 0)
    OBVIOUS
  <2> HIDE DEF Defines, f
  <2> QED  BY <1>1, <2>1
<1>4. ASSUME NEW m \in 1 .. N, m - 1 \in done PROVE m \in done
  <2>1. PICK f : Defines(f, m - 1)
    BY <1>4
  <2>2. \A k \in 0 .. m - 1 : f[k] = IF k = 0 THEN zero ELSE F(f[k - 1], k)
    BY <2>1, Zenon
  <2> DEFINE g == [k \in 0 .. m |-> IF k = m THEN F(f[m - 1], m) ELSE f[k]]
  <2>3. g[m] = F(f[m - 1], m) /\ \A k \in 0 .. m - 1 : g[k] = f[k]
    BY <1>1
  <2>4. g = [k \in 0 .. m |-> g[k]]
    OBVIOUS
  <2> HIDE DEF g, Defines
  <2>5. \A k \in 0 .. m : g[k] = IF k = 0 THEN zero ELSE F(g[k - 1], k)
    <3> TAKE k \in 0 .. m
    <3>1. CASE k = m
      <4>1. m # 0 /\ m - 1 \in 0 .. m - 1
        OBVIOUS
      <4> QED  BY <2>3, <3>1, <4>1
    <3>2. CASE k # m
      <4>1. k \in 0 .. m - 1 /\ (k # 0 => k - 1 \in 0 .. m - 1)
        BY <3>2
      <4> QED  BY <2>2, <2>3, <4>1
    <3> QED  BY <3>1, <3>2
  <2>6. Defines(g, m)
    BY <2>4, <2>5 DEF Defines
  <2>7. m \in 0 .. N
    BY <1>1
  <2> QED  BY <2>6, <2>7
<1> HIDE DEF done
<1>5. 0 .. N \subseteq done
  BY <1>1, <1>3, <1>4, BoundedInduction
<1>6. N \in done
  BY <1>1, <1>5
<1> DEFINE g == CHOOSE f : Defines(f, N)
<1>7. Defines(g, N)
  <2> HIDE DEF Defines
  <2> QED  BY <1>6 DEF done
<1> HIDE DEF g
<1>8. \A n \in 0 .. N : g[n] = IF n = 0 THEN zero ELSE F(g[n - 1], n)
  BY <1>7, Zenon
<1>9. g[0] = zero /\ \A n \in 1 .. N : g[n] = F(g[n - 1], n)
  <2>1. 0 \in 0 .. N /\ \A n \in 1 .. N : n \in 0 .. N /\ n # 0
    BY <1>1
  <2> QED  BY <1>8, <2>1
<1>10. Joined(graph, edges) = g[N]
  BY <1>2 DEF g
<1> QED  BY <1>9, <1>10 DEF N, F, zero

\* However many edges join, it stays a graph with the same nodes.
LEMMA JoinedIsGraph ==
    ASSUME NEW graph, IsGraph(graph), NEW edges, IsSequence(edges)
    PROVE  LET g == Joined(graph, edges) IN IsGraph(g) /\ g.nodes = graph.nodes
<1> DEFINE N == Len(edges)
<1>1. N \in Nat
  BY LenProperties DEF IsSequence
<1>2. PICK g : /\ g[0] = graph /\ Joined(graph, edges) = g[N]
               /\ \A n \in 1 .. N : g[n] = AddEdge(g[n - 1], edges[n])
  BY <1>1, JoinedUnfolds
<1> HIDE DEF N
<1> DEFINE right == {n \in 0 .. N : IsGraph(g[n]) /\ g[n].nodes = graph.nodes}
<1>3. 0 \in right
  BY <1>1, <1>2
<1>4. ASSUME NEW n \in 1 .. N, n - 1 \in right PROVE n \in right
  <2>1. PICK q : q = g[n - 1] /\ IsGraph(q) /\ q.nodes = graph.nodes
    BY <1>4
  <2>2. IsGraph(AddEdge(q, edges[n])) /\ AddEdge(q, edges[n]).nodes = graph.nodes
    BY <2>1, AddEdgeKeeps
  <2> QED  BY <1>1, <1>2, <2>1, <2>2
<1> HIDE DEF right
<1>5. N \in right
  BY <1>1, <1>3, <1>4, BoundedInduction
<1> QED  BY <1>2, <1>5 DEF right

\* The edges that the parent map or depends_on names are a list.
LEMMA EdgesAreList ==
    ASSUME NEW child, NEW parents, IsSequence(parents), NEW type
    PROVE  IsSequence(EdgesInto(child, parents, type))
<1> DEFINE q == EdgesInto(child, parents, type)
<1>1. PICK n \in Nat : n = Len(parents) /\ DOMAIN parents = 1 .. n
  BY LenProperties DEF IsSequence
<1>2. q = [i \in 1 .. n |-> q[i]]
  BY <1>1 DEF EdgesInto
<1> HIDE DEF q
<1>3. IsSequence(q)
  BY <1>2, OfPlaces
<1> QED  BY <1>3 DEF q

\* The edges of depends_on are a list.
LEMMA DependsOnIsList ==
    ASSUME NEW entries, IsSequence(entries),
           \A e \in ToSet(entries) : IsSequence(e.nodes) /\ IsSequence(e.macros)
    PROVE  IsSequence(AddEdgesFromDependsOn(entries))
<1> DEFINE ss == [i \in DOMAIN entries |-> EdgesInto(entries[i].id, entries[i].nodes, "node")
                                           \o EdgesInto(entries[i].id, entries[i].macros, "macro")]
<1>1. PICK n \in Nat : n = Len(entries) /\ DOMAIN entries = 1 .. n
  BY LenProperties DEF IsSequence
<1>2. \A i \in 1 .. n : IsSequence(entries[i].nodes) /\ IsSequence(entries[i].macros)
  BY <1>1 DEF ToSet
<1>3. \A i \in 1 .. n : IsSequence(EdgesInto(entries[i].id, entries[i].nodes, "node")
                                  \o EdgesInto(entries[i].id, entries[i].macros, "macro"))
  BY <1>2, EdgesAreList, ConcatOwn
<1>4. ss = [i \in 1 .. n |-> ss[i]] /\ \A i \in 1 .. n : IsSequence(ss[i])
  BY <1>1, <1>3
<1> HIDE DEF ss
<1>5. IsSequence(FlattenSeq(ss))
  BY <1>4, FlatHolds
<1> QED  BY <1>5 DEF AddEdgesFromDependsOn, ss

\* The edges of the parent map are a list.
LEMMA ParentMapIsList ==
    ASSUME NEW rows, IsSequence(rows), \A row \in ToSet(rows) : IsSequence(row.parents)
    PROVE  IsSequence(AddEdgesFromParentMap(rows))
<1> DEFINE ss == [i \in DOMAIN rows |-> EdgesInto(rows[i].child, rows[i].parents, Inferred)]
<1>1. PICK n \in Nat : n = Len(rows) /\ DOMAIN rows = 1 .. n
  BY LenProperties DEF IsSequence
<1>2. \A i \in 1 .. n : IsSequence(rows[i].parents)
  BY <1>1 DEF ToSet
<1>3. ss = [i \in 1 .. n |-> ss[i]] /\ \A i \in 1 .. n : IsSequence(ss[i])
  BY <1>1, <1>2, EdgesAreList
<1> HIDE DEF ss
<1>4. IsSequence(FlattenSeq(ss))
  BY <1>3, FlatHolds
<1> QED  BY <1>4 DEF AddEdgesFromParentMap, ss

\* What is built of a manifest is a graph (graph.ts:210).
LEMMA BuiltIsGraph ==
    ASSUME NEW m, IsManifest(m)
    PROVE  IsGraph(BuildGraph(m))
<1> DEFINE g == AddNodes(EmptyGraph, m)
           edges == ManifestEdges(m)
           j == Joined(g, edges)
           graph == BuildGraph(m)
<1>1. g.edges = <<>> /\ g = [nodes |-> g.nodes, edges |-> g.edges, relations |-> g.relations]
  <2> DEFINE nodes == EmptyGraph.nodes \o AllEntries(m)
             names == EmptyGraph.relations \o RegisterRelationNames(m.nodes \o m.source)
  <2>1. g = [EmptyGraph EXCEPT !.nodes = nodes, !.relations = names]
    BY DEF AddNodes
  <2> HIDE DEF g, nodes, names
  <2>2. g = [nodes |-> nodes, edges |-> <<>>, relations |-> names]
    BY <2>1 DEF EmptyGraph
  <2> QED  BY <2>2
<1>2. g.nodes = AllEntries(m)
  <2>1. AddNodes(EmptyGraph, m).nodes = EmptyGraph.nodes \o AllEntries(m)
    BY DEF AddNodes, EmptyGraph
  <2>2. graph.nodes = AllEntries(m)
    BY GraphHasEntries
  <2>3. graph.nodes = g.nodes
    BY DEF BuildGraph, AddEdges, AddNodes, EmptyGraph
  <2> QED  BY <2>2, <2>3
<1>3. LET nodes == graph.nodes IN nodes \in Seq(ToSet(nodes)) /\ DistinctIds(nodes)
  BY GraphNodes
<1>4. graph.nodes = AllEntries(m)
  BY GraphHasEntries
<1>5. IsGraph(g)
  <2>1. IsSequence(<<>>) /\ ToSet(<<>>) = {}
    BY DEF IsSequence, ToSet
  <2> HIDE DEF g
  <2> QED  BY <1>1, <1>2, <1>3, <1>4, <2>1 DEF IsGraph, IsSequence
<1>6. IsSequence(edges)
  <2>1. \A c \in {"nodes", "exposure", "metric"} : IsSequence(m[c])
    BY DEF IsManifest, Collections
  <2>2. /\ \A e \in ToSet(m.nodes) : IsEntered(e)
        /\ \A e \in ToSet(m.exposure) : IsEntered(e)
        /\ \A e \in ToSet(m.metric) : IsEntered(e)
    <3>1. /\ IsSequence(m.nodes) /\ IsSequence(m.source) /\ IsSequence(m.unit_test)
          /\ IsSequence(m.disabled) /\ IsSequence(m.exposure) /\ IsSequence(m.metric)
      BY DEF IsManifest, Collections
    <3>2. \A e \in ToSet(ManifestEntryLookup(m) \o m.exposure \o m.metric) : IsEntered(e)
      BY DEF IsManifest
    <3> DEFINE a == m.nodes \o m.source
               b == a \o m.unit_test
               c == b \o m.disabled
               d == c \o m.exposure
    <3>3. IsSequence(a) /\ ToSet(a) = ToSet(m.nodes) \cup ToSet(m.source)
      BY <3>1, ConcatOwn
    <3> HIDE DEF a
    <3>4. IsSequence(b) /\ ToSet(b) = ToSet(a) \cup ToSet(m.unit_test)
      BY <3>1, <3>3, ConcatOwn
    <3> HIDE DEF b
    <3>5. IsSequence(c) /\ ToSet(c) = ToSet(b) \cup ToSet(m.disabled)
      BY <3>1, <3>4, ConcatOwn
    <3> HIDE DEF c
    <3>6. IsSequence(d) /\ ToSet(d) = ToSet(c) \cup ToSet(m.exposure)
      BY <3>1, <3>5, ConcatOwn
    <3> HIDE DEF d
    <3>7. IsSequence(d \o m.metric) /\ ToSet(d \o m.metric) = ToSet(d) \cup ToSet(m.metric)
      BY <3>1, <3>6, ConcatOwn
    <3>8. ManifestEntryLookup(m) \o m.exposure \o m.metric = d \o m.metric
      BY DEF ManifestEntryLookup, a, b, c, d
    <3> QED  BY <3>2, <3>3, <3>4, <3>5, <3>6, <3>7, <3>8
  <2>3. IsSequence(AddEdgesFromDependsOn(m.nodes)) /\ IsSequence(AddEdgesFromDependsOn(m.exposure))
        /\ IsSequence(AddEdgesFromDependsOn(m.metric))
    BY <2>1, <2>2, DependsOnIsList DEF IsEntered
  <2>4. IsSequence(AddEdgesFromParentMap(m.parentMap))
    BY ParentMapIsList DEF IsManifest
  <2> QED  BY <2>3, <2>4, ConcatOwn DEF ManifestEdges
<1> HIDE DEF g, edges
<1>7. IsGraph(j) /\ j.nodes = g.nodes
  BY <1>5, <1>6, JoinedIsGraph
<1>8. graph = [nodes |-> g.nodes, edges |-> j.edges, relations |-> g.relations]
  <2>1. graph = [g EXCEPT !.edges = j.edges]
    BY DEF BuildGraph, AddEdges, g, edges
  <2> QED  BY <1>1, <2>1
<1> HIDE DEF j, graph
<1>9. graph.nodes = g.nodes /\ graph.edges = j.edges /\ graph.relations = g.relations
  BY <1>8
<1>10. NodeIds(graph) = NodeIds(j)
  BY <1>7, <1>9 DEF NodeIds
<1>11. IsGraph(graph)
  BY <1>7, <1>8, <1>9, <1>10 DEF IsGraph
<1> QED  BY <1>11 DEF graph

-----------------------------------------------------------------------------
(* The timeline.  The least and the greatest of some numbers. *)
LEMMA ExtremesOf ==
    ASSUME NEW N \in Nat \ {0}, NEW v, \A i \in 1 .. N : v[i] \in Int
    PROVE  LET S == {v[i] : i \in 1 .. N}
           IN  /\ Min(S) \in S /\ \A x \in S : Min(S) <= x
               /\ Max(S) \in S /\ \A x \in S : x <= Max(S)
<1> DEFINE Of(n) == {v[i] : i \in 1 .. n}
           done == {n \in 0 .. N : n = 0 \/ (/\ \E x \in Of(n) : \A y \in Of(n) : x <= y
                                             /\ \E x \in Of(n) : \A y \in Of(n) : y <= x)}
<1>1. 0 \in done
  OBVIOUS
<1>2. ASSUME NEW n \in 1 .. N, n - 1 \in done PROVE n \in done
  <2>1. Of(n) = Of(n - 1) \cup {v[n]} /\ Of(n) \subseteq Int
    <3>1. 1 .. n = 1 .. n - 1 \cup {n}
      OBVIOUS
    <3> QED  BY <3>1
  <2>2. CASE n = 1
    <3>1. Of(n) = {v[n]} /\ v[n] \in Int
      BY <2>2
    <3> HIDE DEF Of
    <3>2. v[n] <= v[n]
      BY <3>1
    <3> QED  BY <3>1, <3>2
  <2>3. CASE n # 1
    <3>1. PICK x \in Of(n - 1), z \in Of(n - 1) : \A y \in Of(n - 1) : x <= y /\ y <= z
      BY <1>2, <2>3
    <3>2. v[n] \in Int
      OBVIOUS
    <3> HIDE DEF Of
    <3>3. \E a \in Of(n) : \A y \in Of(n) : a <= y
      <4>1. CASE x <= v[n]
        BY <2>1, <3>1, <4>1
      <4>2. CASE ~(x <= v[n])
        <5>1. \A y \in Of(n) : v[n] <= y
          BY <2>1, <3>1, <3>2, <4>2
        <5> QED  BY <2>1, <5>1
      <4> QED  BY <4>1, <4>2
    <3>4. \E a \in Of(n) : \A y \in Of(n) : y <= a
      <4>1. CASE v[n] <= z
        BY <2>1, <3>1, <4>1
      <4>2. CASE ~(v[n] <= z)
        <5>1. \A y \in Of(n) : y <= v[n]
          BY <2>1, <3>1, <3>2, <4>2
        <5> QED  BY <2>1, <5>1
      <4> QED  BY <4>1, <4>2
    <3> QED  BY <3>3, <3>4
  <2> QED  BY <2>2, <2>3
<1> HIDE DEF done
<1>3. N \in done
  BY <1>1, <1>2, BoundedInduction
<1> DEFINE S == Of(N)
<1>4. /\ \E x \in S : \A y \in S : x <= y
      /\ \E x \in S : \A y \in S : y <= x
  BY <1>3 DEF done
<1> HIDE DEF Of
<1>5. Min(S) \in S /\ \A x \in S : Min(S) <= x
  BY <1>4 DEF Min
<1>6. Max(S) \in S /\ \A x \in S : x <= Max(S)
  BY <1>4 DEF Max
<1> QED  BY <1>5, <1>6 DEF Of

\* What the clock of a result says starts before it ends.
LEMMA ClockSpans ==
    ASSUME NEW r, IsTiming(r.compile), IsTiming(r.execute), WallClock(r) # NoTiming
    PROVE  LET clock == WallClock(r)
           IN  clock[1] \in Int /\ clock[2] \in Int /\ clock[1] <= clock[2]
<1> DEFINE c == r.compile
           e == r.execute
           spans == {c, e} \ {NoTiming}
           clock == <<Min({s[1] : s \in spans}), Max({s[2] : s \in spans})>>
<1>1. WallClock(r) = clock /\ spans # {}
  BY DEF WallClock
<1>2. \A x \in {c, e} : x # NoTiming => x[1] \in Int /\ x[2] \in Int /\ x[1] <= x[2]
  BY DEF IsTiming
<1>3. clock[1] = Min({s[1] : s \in spans}) /\ clock[2] = Max({s[2] : s \in spans})
  OBVIOUS
<1> HIDE DEF clock, c, e
<1>4. CASE c # NoTiming /\ e # NoTiming
  <2>1. {s[1] : s \in spans} = {c[1], e[1]} /\ {s[2] : s \in spans} = {c[2], e[2]}
    BY <1>4
  <2> QED  BY <1>1, <1>2, <1>3, <1>4, <2>1, MinOfTwo, MaxOfTwo
<1>5. CASE c = NoTiming /\ e # NoTiming
  <2>1. {s[1] : s \in spans} = {e[1], e[1]} /\ {s[2] : s \in spans} = {e[2], e[2]}
    BY <1>5
  <2> QED  BY <1>1, <1>2, <1>3, <1>5, <2>1, MinOfTwo, MaxOfTwo
<1>6. CASE c # NoTiming /\ e = NoTiming
  <2>1. {s[1] : s \in spans} = {c[1], c[1]} /\ {s[2] : s \in spans} = {c[2], c[2]}
    BY <1>6
  <2> QED  BY <1>1, <1>2, <1>3, <1>6, <2>1, MinOfTwo, MaxOfTwo
<1> QED  BY <1>1, <1>4, <1>5, <1>6

IsSpan(row) == row.start \in Nat /\ row.end \in Nat /\ row.start <= row.end

\* The rows of the results that were timed: one each, from 0, none ends before it starts.
LEMMA GanttHolds ==
    ASSUME NEW results, IsRun(results)
    PROVE  LET data == GanttData(results)
               timed == {r \in ToSet(results) : WallClock(r) # NoTiming}
           IN  /\ IsSequence(data) /\ DistinctIds(data) /\ \A d \in ToSet(data) : IsSpan(d)
               /\ FoundIds(data) = {r.id : r \in timed}
               /\ data # <<>> => \E d \in ToSet(data) : d.start = 0
<1> DEFINE timed == {r \in ToSet(results) : WallClock(r) # NoTiming}
           kept == Only(results, timed)
           origin == Min({WallClock(kept[i])[1] : i \in DOMAIN kept})
           data == GanttData(results)
<1>1. IsSequence(results) /\ Len(results) \in Nat /\ DOMAIN results = 1 .. Len(results)
  BY OwnMembers DEF IsRun, IsSequence
<1>2. DistinctIds(results)
  BY <1>1 DEF IsRun, DistinctIds
<1>3. /\ kept \in Seq(ToSet(results)) /\ DistinctIds(kept) /\ ToSet(kept) = timed
  <2> HIDE DEF timed
  <2>1. results \in Seq(ToSet(results))
    BY <1>1 DEF IsSequence
  <2>2. ToSet(kept) = ToSet(results) \cap timed /\ DistinctIds(kept) /\ kept \in Seq(ToSet(results))
    BY <1>2, <2>1, OnlyKeeps
  <2> QED  BY <2>2 DEF timed
<1>4. PICK n \in Nat : n = Len(kept) /\ DOMAIN kept = 1 .. n
  BY <1>3, LenProperties
<1>5. \A i \in 1 .. n : kept[i] \in timed
  BY <1>3, <1>4 DEF ToSet
<1>6. \A r \in timed : IsTiming(r.compile) /\ IsTiming(r.execute)
  BY <1>1 DEF IsRun, ToSet
<1>7. \A i \in 1 .. n : /\ WallClock(kept[i])[1] \in Int /\ WallClock(kept[i])[2] \in Int
                        /\ WallClock(kept[i])[1] <= WallClock(kept[i])[2]
  BY <1>5, <1>6, ClockSpans
<1>8. /\ DOMAIN data = 1 .. n /\ data = [i \in 1 .. n |-> data[i]]
      /\ \A i \in 1 .. n : /\ data[i].id = kept[i].id
                           /\ data[i].start = WallClock(kept[i])[1] - origin
                           /\ data[i].end = WallClock(kept[i])[2] - origin
  <2>1. \A i \in 1 .. n : WallClock(kept[i]) # NoTiming
    BY <1>5
  <2> HIDE DEF kept
  <2> QED  BY <1>4, <2>1 DEF GanttData, kept
<1> HIDE DEF data, kept
<1>9. n # 0 => /\ origin \in Int /\ \A i \in 1 .. n : origin <= WallClock(kept[i])[1]
               /\ \E i \in 1 .. n : origin = WallClock(kept[i])[1]
  <2> SUFFICES ASSUME n # 0 PROVE /\ origin \in Int /\ \A i \in 1 .. n : origin <= WallClock(kept[i])[1]
                                  /\ \E i \in 1 .. n : origin = WallClock(kept[i])[1]
    OBVIOUS
  <2> DEFINE v == [i \in 1 .. n |-> WallClock(kept[i])[1]]
             starts == {v[i] : i \in 1 .. n}
  <2>1. \A i \in 1 .. n : v[i] = WallClock(kept[i])[1] /\ v[i] \in Int
    BY <1>7
  <2>2. origin = Min(starts)
    <3>1. starts = {WallClock(kept[i])[1] : i \in DOMAIN kept}
      BY <1>4, <2>1
    <3> QED  BY <3>1
  <2> HIDE DEF v
  <2>3. Min(starts) \in starts /\ \A x \in starts : Min(starts) <= x
    <3>1. n \in Nat \ {0} /\ \A i \in 1 .. n : v[i] \in Int
      BY <2>1
    <3> QED  BY ONLY <3>1, ExtremesOf
  <2> HIDE DEF origin
  <2> QED  BY <2>1, <2>2, <2>3
<1> HIDE DEF origin
<1>10. \A i \in 1 .. n : IsSpan(data[i])
  BY <1>7, <1>8, <1>9 DEF IsSpan
<1>11. IsSequence(data) /\ Len(data) = n
  BY <1>8, OfPlaces
<1>12. DistinctIds(data)
  BY <1>3, <1>4, <1>8, <1>11 DEF DistinctIds
<1>13. FoundIds(data) = {r.id : r \in timed}
  <2>1. FoundIds(data) = {kept[i].id : i \in 1 .. n}
    BY <1>8 DEF FoundIds
  <2>2. ToSet(kept) = {kept[i] : i \in 1 .. n}
    BY <1>4 DEF ToSet
  <2> QED  BY <1>3, <2>1, <2>2
<1>14. data # <<>> => \E d \in ToSet(data) : d.start = 0
  <2> SUFFICES ASSUME data # <<>> PROVE \E d \in ToSet(data) : d.start = 0
    OBVIOUS
  <2>1. n # 0
    BY <1>8
  <2>2. PICK i \in 1 .. n : origin = WallClock(kept[i])[1] /\ origin \in Int
    BY <1>9, <2>1
  <2>3. data[i].start = 0 /\ data[i] \in ToSet(data)
    BY <1>8, <2>2 DEF ToSet
  <2> QED  BY <2>3
<1>15. \A d \in ToSet(data) : IsSpan(d)
  BY <1>8, <1>10 DEF ToSet
<1> QED  BY <1>11, <1>12, <1>13, <1>14, <1>15 DEF data

\* The rows in the order of their start.
LEMMA SortedByStart ==
    ASSUME NEW rows, IsSequence(rows), \A row \in ToSet(rows) : row.start \in Int
    PROVE  LET q == SortedRows(rows)
           IN  /\ q \in Seq(ToSet(rows)) /\ ToSet(q) = ToSet(rows)
               /\ DistinctIds(rows) => DistinctIds(q)
               /\ \A i, j \in 1 .. Len(q) : i <= j => q[i].start <= q[j].start
<1> DEFINE S == ToSet(rows)
           earlier == {p \in Pairs(rows) : CompareGanttItems(p[1], p[2])}
           key == [row \in S |-> row.start]
           q == SortedRows(rows)
<1>1. \A y, z \in S : /\ <<y, z>> \in earlier => y.start <= z.start
                      /\ <<y, z>> \notin earlier => z.start <= y.start
  <2> TAKE y \in S, z \in S
  <2> DEFINE p == <<y, z>>
  <2>1. p \in Pairs(rows) /\ p[1] = y /\ p[2] = z
    BY DEF Pairs
  <2>2. p \in earlier <=> CompareGanttItems(y, z)
    BY <2>1
  <2>3. CompareGanttItems(y, z) => y.start <= z.start
    BY DEF CompareGanttItems
  <2>4. ~CompareGanttItems(y, z) => z.start <= y.start
    BY DEF CompareGanttItems
  <2> QED  BY <2>2, <2>3, <2>4
<1>2. key \in [S -> Int] /\ \A row \in S : key[row] = row.start
  OBVIOUS
<1>3. rows \in Seq(S)
  BY DEF IsSequence
<1>4. q = Sorted(rows, earlier)
  BY DEF SortedRows
<1> HIDE DEF S, key, earlier, q
<1>5. q \in Seq(S) /\ ToSet(q) = ToSet(rows) /\ (DistinctIds(rows) => DistinctIds(q))
  BY <1>3, <1>4, SortedKeeps
<1>6. \A y, z \in S : /\ <<y, z>> \in earlier => key[y] <= key[z]
                      /\ <<y, z>> \notin earlier => key[z] <= key[y]
  BY <1>1, <1>2
<1>7. InOrder(q, key)
  BY <1>2, <1>3, <1>4, <1>6, SortedInOrder
<1>8. \A i \in 1 .. Len(q) : q[i] \in S
  BY <1>5, LenProperties
<1>9. \A i, j \in 1 .. Len(q) : i <= j => q[i].start <= q[j].start
  BY <1>2, <1>7, <1>8 DEF InOrder
<1> QED  BY <1>5, <1>9 DEF S, q

(* What a test is about is never a test: neither a neighbour or a dependency of another type,  *)
(* nor the node that it is attached to.                                                        *)
LEMMA LookedIn ==
    ASSUME NEW lookup, IsSequence(lookup), NEW id
    PROVE  LET q == Looked(lookup, id)
           IN  /\ IsSequence(q) /\ ToSet(q) = {e \in ToSet(lookup) : e.id = id}
               /\ q # <<>> => Last(q) \in ToSet(lookup) /\ Last(q).id = id
<1> DEFINE q == Looked(lookup, id)
           kept == {e \in ToSet(lookup) : e.id = id}
<1>1. q \in Seq(ToSet(lookup)) /\ ToSet(q) = ToSet(lookup) \cap kept
  <2> HIDE DEF kept
  <2>1. Looked(lookup, id) = Only(lookup, kept)
    BY DEF Looked, kept
  <2> QED  BY <2>1, OnlyKeeps DEF IsSequence
<1>2. ToSet(q) = kept
  BY <1>1
<1> HIDE DEF q
<1>3. IsSequence(q) /\ Len(q) \in Nat /\ \A i \in 1 .. Len(q) : q[i] \in ToSet(q)
  BY <1>1, OwnMembers
<1>4. q # <<>> => Last(q) \in ToSet(q)
  <2> SUFFICES ASSUME q # <<>> PROVE Last(q) \in ToSet(q)
    OBVIOUS
  <2>1. Len(q) \in 1 .. Len(q)
    BY <1>1, <1>3, EmptySeq
  <2> QED  BY <1>3, <2>1 DEF Last
<1> QED  BY <1>2, <1>3, <1>4 DEF q

\* A node of the graph is a resource of the manifest.
LEMMA NodeIsResource ==
    ASSUME NEW graph, HasResources(graph), NEW id, HasNode(graph, id)
    PROVE  LET n == Attributes(graph, id)
           IN  /\ n \in ToSet(graph.nodes) /\ n.id = id /\ IsResource(n)
               /\ n.type = ExtractResourceType(Prefix(id))
<1>1. \E n \in ToSet(graph.nodes) : n.id = id
  BY DEF HasNode, ToSet
<1>2. Attributes(graph, id) \in ToSet(graph.nodes) /\ Attributes(graph, id).id = id
  BY <1>1 DEF Attributes
<1> QED  BY <1>2 DEF HasResources, IsResource, Prefix

\* The id of a test starts with a type of test.
LEMMA TestsAreNamed ==
    ASSUME NEW graph, HasResources(graph), NEW lookup, IsSequence(lookup),
           \A e \in ToSet(lookup) : IsEntered(e), NEW id
    PROVE  /\ TypeOf(graph, <<>>, id) \in TestTypes => Prefix(id) \in TestTypes
           /\ Prefix(id) \in TestTypes => TypeOf(graph, lookup, id) \in TestTypes
<1>1. Looked(<<>>, id) = <<>>
  <2>1. <<>> \in Seq({})
    OBVIOUS
  <2>2. Only(<<>>, {e \in ToSet(<<>>) : e.id = id}) \in Seq({})
    BY <2>1, OnlyKeeps
  <2> QED  BY <2>2 DEF Looked
<1>2. ExtractResourceType(Prefix(id)) \in TestTypes <=> Prefix(id) \in TestTypes
  BY DEF ExtractResourceType, KnownTypes, TestTypes
<1>3. InferResourceType(id) \in TestTypes <=> Prefix(id) \in TestTypes
  BY DEF InferResourceType, KnownTypes, TestTypes
<1>4. CASE HasNode(graph, id)
  <2>1. \A l : TypeOf(graph, l, id) = ExtractResourceType(Prefix(id))
    BY <1>4, NodeIsResource DEF TypeOf
  <2> QED  BY <1>2, <2>1
<1>5. CASE ~HasNode(graph, id)
  <2>1. TypeOf(graph, <<>>, id) = InferResourceType(id)
    BY <1>1, <1>5 DEF TypeOf
  <2>2. CASE Looked(lookup, id) = <<>>
    <3>1. TypeOf(graph, lookup, id) = InferResourceType(id)
      BY <1>5, <2>2 DEF TypeOf
    <3> QED  BY <1>3, <2>1, <3>1
  <2>3. CASE Looked(lookup, id) # <<>>
    <3>1. TypeOf(graph, lookup, id) = Last(Looked(lookup, id)).type
      BY <1>5, <2>3 DEF TypeOf
    <3>2. Last(Looked(lookup, id)).type = Prefix(id)
      BY <2>3, LookedIn DEF IsEntered
    <3> QED  BY <1>3, <2>1, <3>1, <3>2
  <2> QED  BY <2>2, <2>3
<1> QED  BY <1>4, <1>5

\* The neighbours of a node are those that edges name.
LEMMA NeighborsAreLists ==
    ASSUME NEW graph, IsGraph(graph), NEW id
    PROVE  /\ IsSequence(Inbound(graph, id)) /\ ToSet(Inbound(graph, id)) = Parents(graph, {id})
           /\ IsSequence(Outbound(graph, id)) /\ ToSet(Outbound(graph, id)) = Children(graph, {id})
<1> DEFINE E == ToSet(graph.edges)
           keptIn == {e \in E : e.to = id}
           keptOut == {e \in E : e.from = id}
           into == Only(graph.edges, keptIn)
           outOf == Only(graph.edges, keptOut)
<1>1. graph.edges \in Seq(E) /\ DOMAIN graph.edges = 1 .. Len(graph.edges)
  BY OwnMembers DEF IsGraph, IsSequence
<1>2. into \in Seq(E) /\ ToSet(into) = E \cap keptIn /\ outOf \in Seq(E) /\ ToSet(outOf) = E \cap keptOut
  <2> HIDE DEF E, keptIn, keptOut
  <2> QED  BY <1>1, OnlyKeeps DEF E
<1>3. Inbound(graph, id) = [i \in DOMAIN into |-> into[i].from]
  BY DEF Inbound
<1>4. Outbound(graph, id) = [i \in DOMAIN outOf |-> outOf[i].to]
  BY DEF Outbound
<1> HIDE DEF into, outOf
<1>5. PICK a \in Nat : a = Len(into) /\ DOMAIN into = 1 .. a
  BY <1>2, LenProperties
<1>6. PICK b \in Nat : b = Len(outOf) /\ DOMAIN outOf = 1 .. b
  BY <1>2, LenProperties
<1> DEFINE p == [i \in 1 .. a |-> into[i].from]
           q == [i \in 1 .. b |-> outOf[i].to]
<1>7. p = [i \in 1 .. a |-> p[i]] /\ q = [i \in 1 .. b |-> q[i]]
  OBVIOUS
<1>8. ToSet(p) = {into[i].from : i \in 1 .. a} /\ ToSet(q) = {outOf[i].to : i \in 1 .. b}
  BY DEF ToSet
<1>9. {into[i].from : i \in 1 .. a} = {e.from : e \in ToSet(into)}
  BY <1>5 DEF ToSet
<1>10. {outOf[i].to : i \in 1 .. b} = {e.to : e \in ToSet(outOf)}
  BY <1>6 DEF ToSet
<1>11. {e.from : e \in keptIn} = Parents(graph, {id})
  BY <1>1 DEF Parents, ToSet
<1>12. {e.to : e \in keptOut} = Children(graph, {id})
  BY <1>1 DEF Children, ToSet
<1>13. ToSet(into) = keptIn /\ ToSet(outOf) = keptOut
  BY <1>2
<1> HIDE DEF p, q, keptIn, keptOut
<1>14. IsSequence(p) /\ IsSequence(q)
  BY <1>7, OfPlaces
<1>15. Inbound(graph, id) = p /\ Outbound(graph, id) = q
  BY <1>3, <1>4, <1>5, <1>6 DEF p, q
<1> QED  BY <1>8, <1>9, <1>10, <1>11, <1>12, <1>13, <1>14, <1>15

\* The first of some ids that is no test is no test.
LEMMA FirstIsNoTest ==
    ASSUME NEW graph, NEW lookup, NEW ids, IsSequence(ids), FirstNonTest(graph, lookup, ids) # Nobody
    PROVE  TypeOf(graph, lookup, FirstNonTest(graph, lookup, ids)) \notin TestTypes
<1> DEFINE kept == {id \in ToSet(ids) : TypeOf(graph, lookup, id) \notin TestTypes}
           others == Only(ids, kept)
<1>1. others \in Seq(ToSet(ids)) /\ ToSet(others) = ToSet(ids) \cap kept
  <2> HIDE DEF kept
  <2> QED  BY OnlyKeeps DEF IsSequence
<1>2. FirstNonTest(graph, lookup, ids) = IF others = <<>> THEN Nobody ELSE others[1]
  BY DEF FirstNonTest
<1> HIDE DEF others
<1>3. others # <<>> /\ FirstNonTest(graph, lookup, ids) = others[1]
  BY <1>2
<1>4. 1 \in 1 .. Len(others) /\ \A i \in 1 .. Len(others) : others[i] \in ToSet(others)
  BY <1>1, <1>3, OwnMembers, EmptySeq
<1>5. others[1] \in kept
  BY <1>1, <1>4
<1> QED  BY <1>3, <1>5

\* The parent that a test is given is no test (gantt.ts:245).
LEMMA ParentIsNoTest ==
    ASSUME NEW graph, IsGraph(graph), HasResources(graph), NEW lookup, IsSequence(lookup),
           \A e \in ToSet(lookup) : IsEntered(e), NEW test,
           ResolveTestParent(graph, lookup, test) # Nobody
    PROVE  TypeOf(graph, <<>>, ResolveTestParent(graph, lookup, test)) \notin TestTypes
<1> DEFINE direct == Inbound(graph, test)
           entry == Looked(lookup, test)
           inGraph == FirstNonTest(graph, lookup, direct)
           parent == ResolveTestParent(graph, lookup, test)
<1>1. IsSequence(direct)
  BY NeighborsAreLists
<1>2. entry # <<>> => IsEntered(Last(entry))
  BY LookedIn
<1>3. \/ parent = inGraph
      \/ entry # <<>> /\ Last(entry).attached # Nobody /\ parent = Last(entry).attached
      \/ entry # <<>> /\ parent = FirstNonTest(graph, lookup, Last(entry).nodes)
  <2> HIDE DEF inGraph, entry
  <2> QED  BY DEF ResolveTestParent, inGraph, entry
<1> HIDE DEF direct, entry, inGraph, parent
<1>4. parent # Nobody
  BY DEF parent
<1>5. CASE parent = inGraph
  <2>1. TypeOf(graph, lookup, parent) \notin TestTypes
    BY <1>1, <1>4, <1>5, FirstIsNoTest DEF inGraph
  <2> QED  BY <2>1, TestsAreNamed DEF parent
<1>6. CASE entry # <<>> /\ Last(entry).attached # Nobody /\ parent = Last(entry).attached
  <2>1. Prefix(parent) \notin TestTypes
    BY <1>2, <1>6 DEF IsEntered
  <2> QED  BY <2>1, TestsAreNamed DEF parent
<1>7. CASE entry # <<>> /\ parent = FirstNonTest(graph, lookup, Last(entry).nodes)
  <2>1. IsSequence(Last(entry).nodes)
    BY <1>2, <1>7 DEF IsEntered
  <2>2. TypeOf(graph, lookup, parent) \notin TestTypes
    BY <1>4, <1>7, <2>1, FirstIsNoTest
  <2> QED  BY <2>2, TestsAreNamed DEF parent
<1> QED  BY <1>3, <1>5, <1>6, <1>7

-----------------------------------------------------------------------------
(* The row of a source that did not run stands for the tests about it, or else for those that  *)
(* depend on it.                                                                               *)
SourceNodes(graph) == {n \in ToSet(graph.nodes) : n.type = "source"}
TestsIn(rows, id) == {t \in rows : t.type \in TestTypes /\ t.parent = id}
Dependent(graph, rows, id) ==
    {r \in rows : r.id \in Children(graph, {id}) /\ r.type \notin TestTypes}
DependentsIn(graph, project, rows, ran, n) ==
    {r \in rows : /\ project \in {0, n.package}
                 /\ r.id \in Children(graph, {n.id}) /\ r.type \notin TestTypes
                 /\ (r.id \in ran \/ TestsIn(rows, r.id) # {})}
StoodForIn(graph, project, rows, ran, n) ==
    IF TestsIn(rows, n.id) # {} THEN TestsIn(rows, n.id)
    ELSE DependentsIn(graph, project, rows, ran, n)

\* The worst status of some rows is that of one of them and no better than that of any.
LEMMA WorstIsGiven ==
    ASSUME NEW N \in Nat \ {0}, NEW items, DOMAIN items = 1 .. N
    PROVE  /\ \A i \in 1 .. N :
                 StatusSeverity(items[i].status) <= StatusSeverity(RepresentativeStatus(items))
           /\ \E i \in 1 .. N : items[i].status = RepresentativeStatus(items)
<1> DEFINE v == [i \in 1 .. N |-> StatusSeverity(items[i].status)]
           S == {v[i] : i \in 1 .. N}
           worst == {i \in 1 .. N : v[i] = Max(S)}
<1>1. \A i \in 1 .. N : v[i] \in Int
  <2>1. \A status : StatusSeverity(status) \in Int
    BY DEF StatusSeverity
  <2> QED  BY <2>1
<1>2. RepresentativeStatus(items) = items[Min(worst)].status
  <2>1. S = {StatusSeverity(items[i].status) : i \in DOMAIN items}
    OBVIOUS
  <2>2. worst = {i \in DOMAIN items : StatusSeverity(items[i].status) = Max(S)}
    OBVIOUS
  <2> HIDE DEF S, worst
  <2> QED  BY <2>1, <2>2 DEF RepresentativeStatus
<1> HIDE DEF v
<1>3. Max(S) \in S /\ \A x \in S : x <= Max(S)
  BY ONLY <1>1, N \in Nat \ {0}, ExtremesOf
<1>4. worst \in SUBSET Nat /\ worst # {}
  <2>1. PICK i \in 1 .. N : v[i] = Max(S)
    BY <1>3
  <2>2. i \in worst
    BY <2>1
  <2> HIDE DEF S
  <2>3. worst \in SUBSET Nat
    OBVIOUS
  <2> QED  BY <2>2, <2>3
<1>5. Min(worst) \in worst
  <2>1. \E n \in worst : \A m \in worst : n <= m
    BY <1>4, SmallestNumber
  <2> HIDE DEF worst
  <2> QED  BY <2>1 DEF Min
<1>6. v[Min(worst)] = Max(S) /\ Min(worst) \in 1 .. N
  BY <1>5
<1> HIDE DEF worst
<1>7. StatusSeverity(RepresentativeStatus(items)) = Max(S)
  BY <1>2, <1>6 DEF v
<1>8. \A i \in 1 .. N : v[i] <= Max(S)
  BY <1>3
<1>9. \E i \in 1 .. N : items[i].status = RepresentativeStatus(items)
  BY <1>2, <1>6
<1> QED  BY <1>7, <1>8, <1>9 DEF v

\* The row of a source is that of what it stands for.
LEMMA SourceRowStands ==
    ASSUME NEW graph, NEW lookup, NEW source, NEW members, IsSequence(members), members # <<>>,
           \A row \in ToSet(members) : IsSpan(row)
    PROVE  LET row == SyntheticSourceRow(graph, lookup, source, members)
           IN  /\ row.id = source /\ row.type = "source" /\ row.parent = Nobody
               /\ IsSpan(row) /\ StandsFor(row, ToSet(members))
<1> DEFINE rows == SortedRows(members)
           row == SyntheticSourceRow(graph, lookup, source, members)
<1>1. rows \in Seq(ToSet(members)) /\ ToSet(rows) = ToSet(members)
  <2>1. \A r \in ToSet(members) : r.start \in Int
    BY DEF IsSpan
  <2> QED  BY <2>1, SortedByStart
<1>2. /\ row.id = source /\ row.type = "source" /\ row.parent = Nobody
      /\ row.status = RepresentativeStatus(rows)
      /\ row.start = Min({rows[i].start : i \in DOMAIN rows})
      /\ row.end = Max({rows[i].end : i \in DOMAIN rows})
  <2> HIDE DEF rows
  <2> QED  BY DEF SyntheticSourceRow, rows
<1> HIDE DEF rows, row
<1>3. PICK N \in Nat : N = Len(rows) /\ DOMAIN rows = 1 .. N
  BY <1>1, LenProperties
<1>4. N # 0
  <2>1. PICK y : y \in ToSet(members)
    <3>1. Len(members) \in Nat /\ 1 \in 1 .. Len(members) /\ \A i \in 1 .. Len(members) : members[i] \in ToSet(members)
      BY OwnMembers, EmptySeq DEF IsSequence
    <3> QED  BY <3>1
  <2>2. \E i \in 1 .. N : rows[i] = y
    BY <1>1, <1>3, <2>1 DEF ToSet
  <2> QED  BY <2>2
<1>5. \A i \in 1 .. N : IsSpan(rows[i])
  BY <1>1, <1>3 DEF ToSet
<1> DEFINE v == [i \in 1 .. N |-> rows[i].start]
           w == [i \in 1 .. N |-> rows[i].end]
           starts == {v[i] : i \in 1 .. N}
           ends == {w[i] : i \in 1 .. N}
<1>6. /\ \A i \in 1 .. N : v[i] = rows[i].start /\ w[i] = rows[i].end
      /\ \A i \in 1 .. N : v[i] \in Nat /\ w[i] \in Nat /\ v[i] <= w[i]
  BY <1>5 DEF IsSpan
<1>7. row.start = Min(starts) /\ row.end = Max(ends)
  <2>1. starts = {rows[i].start : i \in DOMAIN rows} /\ ends = {rows[i].end : i \in DOMAIN rows}
    BY <1>3
  <2> HIDE DEF starts, ends
  <2> QED  BY <1>2, <2>1
<1> HIDE DEF v, w
<1>8. N \in Nat \ {0} /\ (\A i \in 1 .. N : v[i] \in Int) /\ (\A i \in 1 .. N : w[i] \in Int)
  BY <1>4, <1>6
<1>9. Min(starts) \in starts /\ \A x \in starts : Min(starts) <= x
  BY ONLY <1>8, ExtremesOf
<1>10. Max(ends) \in ends /\ \A x \in ends : x <= Max(ends)
  BY ONLY <1>8, ExtremesOf
<1>11. row.start \in Nat /\ \A i \in 1 .. N : row.start <= v[i]
  BY <1>6, <1>7, <1>9
<1>12. row.end \in Nat /\ \A i \in 1 .. N : w[i] <= row.end
  BY <1>6, <1>7, <1>10
<1>13. IsSpan(row)
  <2>1. 1 \in 1 .. N /\ row.start <= v[1] /\ v[1] <= w[1] /\ w[1] <= row.end /\ v[1] \in Nat /\ w[1] \in Nat
    BY <1>4, <1>6, <1>11, <1>12
  <2> QED  BY <1>11, <1>12, <2>1 DEF IsSpan
<1>14. /\ \A i \in 1 .. N : StatusSeverity(rows[i].status) <= StatusSeverity(row.status)
       /\ \E i \in 1 .. N : rows[i].status = row.status
  BY <1>2, <1>3, <1>8, WorstIsGiven
<1>15. /\ \A t \in ToSet(members) : \E i \in 1 .. N : t = rows[i]
       /\ \A i \in 1 .. N : rows[i] \in ToSet(members)
  BY <1>1, <1>3 DEF ToSet
<1>16. \E m \in ToSet(members) : row.start = m.start
  <2>1. PICK i \in 1 .. N : v[i] = row.start
    BY <1>7, <1>9
  <2> QED  BY <1>6, <1>15, <2>1
<1>17. \E m \in ToSet(members) : row.end = m.end
  <2>1. PICK i \in 1 .. N : w[i] = row.end
    BY <1>7, <1>10
  <2> QED  BY <1>6, <1>15, <2>1
<1>18. \E m \in ToSet(members) : row.status = m.status
  BY <1>14, <1>15
<1>19. \A m \in ToSet(members) : /\ row.start <= m.start /\ m.end <= row.end
                                 /\ StatusSeverity(m.status) <= StatusSeverity(row.status)
  BY <1>6, <1>11, <1>12, <1>14, <1>15
<1>20. StandsFor(row, ToSet(members))
  BY <1>2, <1>16, <1>17, <1>18, <1>19 DEF StandsFor
<1> QED  BY <1>2, <1>13, <1>20 DEF row

\* The ids of a list are those of its members.
LEMMA IdsOfMembers ==
    ASSUME NEW q, IsSequence(q)
    PROVE  FoundIds(q) = {x.id : x \in ToSet(q)}
BY DEF FoundIds, ToSet

\* What is kept of a list is a list.
LEMMA OnlyOwn ==
    ASSUME NEW q, IsSequence(q), NEW kept
    PROVE  /\ IsSequence(Only(q, kept)) /\ ToSet(Only(q, kept)) = ToSet(q) \cap kept
           /\ DistinctIds(q) => DistinctIds(Only(q, kept))
<1>1. q \in Seq(ToSet(q))
  BY DEF IsSequence
<1>2. /\ Only(q, kept) \in Seq(ToSet(q)) /\ ToSet(Only(q, kept)) = ToSet(q) \cap kept
      /\ DistinctIds(q) => DistinctIds(Only(q, kept))
  BY <1>1, OnlyKeeps
<1> QED  BY <1>2, OwnMembers

\* Lists of different ids keep them different one after the other.
LEMMA DistinctConcat ==
    ASSUME NEW p, NEW q, IsSequence(p), IsSequence(q), DistinctIds(p), DistinctIds(q),
           \A x \in ToSet(p), y \in ToSet(q) : x.id # y.id
    PROVE  DistinctIds(p \o q)
<1>1. /\ Len(p) \in Nat /\ \A i \in 1 .. Len(p) : p[i] \in ToSet(p)
      /\ Len(q) \in Nat /\ \A i \in 1 .. Len(q) : q[i] \in ToSet(q)
  BY OwnMembers DEF IsSequence
<1> DEFINE S == ToSet(p) \cup ToSet(q)
           r == p \o q
           M == Len(p)
           N == Len(q)
<1>2. p \in Seq(S) /\ q \in Seq(S)
  BY DEF IsSequence
<1> HIDE DEF S
<1>3. /\ Len(r) = M + N
      /\ \A i \in 1 .. M + N : r[i] = IF i <= M THEN p[i] ELSE q[i - M]
  BY <1>2, ConcatProperties
<1>4. M \in Nat /\ N \in Nat
  BY <1>1
<1>5. \A i, j \in 1 .. M : p[i].id = p[j].id => i = j
  BY DEF DistinctIds
<1>6. \A i, j \in 1 .. N : q[i].id = q[j].id => i = j
  BY DEF DistinctIds
<1>7. \A i \in 1 .. M, j \in 1 .. N : p[i].id # q[j].id
  BY <1>1
<1> HIDE DEF r, M, N
<1>8. ASSUME NEW i \in 1 .. M + N, NEW j \in 1 .. M + N, r[i].id = r[j].id PROVE i = j
  <2>1. CASE i <= M /\ j <= M
    <3>1. i \in 1 .. M /\ j \in 1 .. M
      BY <1>4, <2>1
    <3> QED  BY <1>3, <1>5, <1>8, <2>1, <3>1
  <2>2. CASE i <= M /\ ~(j <= M)
    <3>1. i \in 1 .. M /\ j - M \in 1 .. N
      BY <1>4, <2>2
    <3> QED  BY <1>3, <1>7, <1>8, <2>2, <3>1
  <2>3. CASE ~(i <= M) /\ j <= M
    <3>1. i - M \in 1 .. N /\ j \in 1 .. M
      BY <1>4, <2>3
    <3> QED  BY <1>3, <1>7, <1>8, <2>3, <3>1
  <2>4. CASE ~(i <= M) /\ ~(j <= M)
    <3>1. i - M \in 1 .. N /\ j - M \in 1 .. N
      BY <1>4, <2>4
    <3>2. i - M = j - M
      BY <1>3, <1>6, <1>8, <2>4, <3>1
    <3> QED  BY <1>4, <3>2
  <2> QED  BY <2>1, <2>2, <2>3, <2>4
<1> QED  BY <1>3, <1>8 DEF DistinctIds, r

\* The rows that are added for sources: one for each that has none and has members.
SourcesMissing(sources, rows, members) ==
    {n \in ToSet(sources) : n.id \notin FoundIds(rows) /\ members[n.id] # <<>>}

\* What the added rows are.
LEMMA SyntheticHolds ==
    ASSUME NEW graph, NEW lookup, NEW sources, IsSequence(sources), DistinctIds(sources),
           NEW rows, NEW members,
           \A n \in ToSet(sources) : /\ IsSequence(members[n.id])
                                     /\ \A row \in ToSet(members[n.id]) : IsSpan(row)
    PROVE  LET q == SyntheticRows(graph, lookup, sources, rows, members)
           IN  /\ IsSequence(q) /\ DistinctIds(q)
               /\ FoundIds(q) = {n.id : n \in SourcesMissing(sources, rows, members)}
               /\ \A s \in ToSet(q) : /\ s.type = "source" /\ s.parent = Nobody /\ IsSpan(s)
                                      /\ StandsFor(s, ToSet(members[s.id]))
<1> DEFINE q == SyntheticRows(graph, lookup, sources, rows, members)
           missing == SourcesMissing(sources, rows, members)
           kept == Only(sources, missing)
           Row(n) == SyntheticSourceRow(graph, lookup, n.id, members[n.id])
<1>1. q = [i \in DOMAIN kept |-> Row(kept[i])]
  BY DEF SyntheticRows, SourcesMissing
<1>2. IsSequence(kept) /\ DistinctIds(kept) /\ ToSet(kept) = missing
  <2> HIDE DEF missing
  <2>1. IsSequence(kept) /\ DistinctIds(kept) /\ ToSet(kept) = ToSet(sources) \cap missing
    BY OnlyOwn
  <2>2. missing \subseteq ToSet(sources)
    BY DEF missing, SourcesMissing
  <2> QED  BY <2>1, <2>2
<1>3. PICK N \in Nat : N = Len(kept) /\ DOMAIN kept = 1 .. N
  BY <1>2, OwnMembers DEF IsSequence
<1>4. \A n \in missing : /\ Row(n).id = n.id /\ Row(n).type = "source" /\ Row(n).parent = Nobody
                         /\ IsSpan(Row(n)) /\ StandsFor(Row(n), ToSet(members[n.id]))
  BY SourceRowStands DEF SourcesMissing
<1> HIDE DEF kept, q, Row, missing
<1>5. \A i \in 1 .. N : q[i] = Row(kept[i]) /\ kept[i] \in missing
  BY <1>1, <1>2, <1>3 DEF ToSet
<1>6. q = [i \in 1 .. N |-> q[i]]
  BY <1>1, <1>3
<1>7. IsSequence(q) /\ Len(q) = N /\ DOMAIN q = 1 .. N
  BY <1>6, OfPlaces
<1>8. \A i \in 1 .. N : q[i].id = kept[i].id
  BY <1>4, <1>5
<1>9. DistinctIds(q)
  BY <1>2, <1>3, <1>7, <1>8 DEF DistinctIds
<1>10. FoundIds(q) = {n.id : n \in missing}
  <2>1. FoundIds(q) = {kept[i].id : i \in 1 .. N}
    BY <1>7, <1>8 DEF FoundIds
  <2>2. {kept[i].id : i \in 1 .. N} = {n.id : n \in ToSet(kept)}
    BY <1>3 DEF ToSet
  <2> QED  BY <1>2, <2>1, <2>2
<1>11. ASSUME NEW s \in ToSet(q) PROVE /\ s.type = "source" /\ s.parent = Nobody /\ IsSpan(s)
                                       /\ StandsFor(s, ToSet(members[s.id]))
  <2>1. PICK i \in 1 .. N : q[i] = s
    BY <1>7 DEF ToSet
  <2>2. PICK n \in missing : s = Row(n)
    BY <1>5, <2>1
  <2> QED  BY <1>4, <2>2
<1> QED  BY <1>7, <1>9, <1>10, <1>11 DEF q, missing

AreBarRows(rows) == IsSequence(rows) /\ DistinctIds(rows) /\ \A row \in ToSet(rows) : IsSpan(row)

\* Rows with other ids are added.
LEMMA RowsAreAdded ==
    ASSUME NEW rows, AreBarRows(rows), NEW q, AreBarRows(q),
           \A id \in FoundIds(q) : id \notin FoundIds(rows)
    PROVE  AreBarRows(rows \o q) /\ ToSet(rows \o q) = ToSet(rows) \cup ToSet(q)
<1>1. IsSequence(rows \o q) /\ ToSet(rows \o q) = ToSet(rows) \cup ToSet(q)
  BY ConcatOwn DEF AreBarRows
<1>2. \A x \in ToSet(rows), y \in ToSet(q) : x.id # y.id
  BY IdsOfMembers DEF AreBarRows
<1>3. DistinctIds(rows \o q)
  BY <1>2, DistinctConcat DEF AreBarRows
<1> QED  BY <1>1, <1>3 DEF AreBarRows

\* The sources are those of the graph.
LEMMA SourcesAre ==
    ASSUME NEW graph, IsGraph(graph)
    PROVE  /\ IsSequence(SourcesOf(graph)) /\ DistinctIds(SourcesOf(graph))
           /\ ToSet(SourcesOf(graph)) = SourceNodes(graph)
           /\ \A project :
                  /\ IsSequence(SourcesIn(graph, project)) /\ DistinctIds(SourcesIn(graph, project))
                  /\ ToSet(SourcesIn(graph, project))
                         = {n \in SourceNodes(graph) : project \in {0, n.package}}
<1> DEFINE kept == SourceNodes(graph)
           s == SourcesOf(graph)
<1>1. IsSequence(graph.nodes) /\ DistinctIds(graph.nodes)
  BY DEF IsGraph
<1>2. s = Only(graph.nodes, kept) /\ kept \subseteq ToSet(graph.nodes)
  BY DEF SourcesOf, SourceNodes
<1> HIDE DEF kept, s
<1>3. IsSequence(s) /\ DistinctIds(s) /\ ToSet(s) = kept
  BY <1>1, <1>2, OnlyOwn
<1>4. ASSUME NEW project PROVE /\ IsSequence(SourcesIn(graph, project)) /\ DistinctIds(SourcesIn(graph, project))
                               /\ ToSet(SourcesIn(graph, project)) = {n \in kept : project \in {0, n.package}}
  <2> DEFINE here == {n \in ToSet(s) : project \in {0, n.package}}
  <2>1. SourcesIn(graph, project) = Only(s, here)
    BY DEF SourcesIn, s
  <2>2. here = {n \in kept : project \in {0, n.package}} /\ here \subseteq ToSet(s)
    BY <1>3
  <2> HIDE DEF here
  <2>3. /\ IsSequence(Only(s, here)) /\ DistinctIds(Only(s, here))
        /\ ToSet(Only(s, here)) = ToSet(s) \cap here
    BY <1>3, OnlyOwn
  <2> QED  BY <2>1, <2>2, <2>3
<1> QED  BY <1>3, <1>4 DEF s, kept

\* The members of a source are the rows that point at it.
LEMMA MembersAre ==
    ASSUME NEW graph, IsGraph(graph), NEW rows, AreBarRows(rows), NEW s \in NodeIds(graph)
    PROVE  /\ IsSequence(TestsAbout(graph, rows)[s])
           /\ ToSet(TestsAbout(graph, rows)[s]) = TestsIn(ToSet(rows), s)
           /\ IsSequence(DependentsOf(graph, rows)[s])
           /\ ToSet(DependentsOf(graph, rows)[s]) = Dependent(graph, ToSet(rows), s)
<1> DEFINE about == {r \in ToSet(rows) : r.type \in TestTypes /\ r.parent = s}
           after == {r \in ToSet(rows) : r.id \in ToSet(Outbound(graph, s)) /\ r.type \notin TestTypes}
<1>1. TestsAbout(graph, rows)[s] = Only(rows, about) /\ DependentsOf(graph, rows)[s] = Only(rows, after)
  BY DEF TestsAbout, DependentsOf, NodeIds
<1>2. IsSequence(rows)
  BY DEF AreBarRows
<1>3. about = TestsIn(ToSet(rows), s) /\ about \subseteq ToSet(rows)
  BY DEF TestsIn
<1>4. after = Dependent(graph, ToSet(rows), s) /\ after \subseteq ToSet(rows)
  <2>1. ToSet(Outbound(graph, s)) = Children(graph, {s})
    BY NeighborsAreLists
  <2> QED  BY <2>1 DEF Dependent
<1> HIDE DEF about, after
<1>5. /\ IsSequence(Only(rows, about)) /\ ToSet(Only(rows, about)) = ToSet(rows) \cap about
      /\ IsSequence(Only(rows, after)) /\ ToSet(Only(rows, after)) = ToSet(rows) \cap after
  BY <1>2, OnlyOwn
<1> QED  BY <1>1, <1>3, <1>4, <1>5

(* The rows before they are sorted. *)
TimedOf(graph, m, results) == TimedRows(graph, ManifestEntryLookup(m), GanttData(results))
TestedOf(graph, m, results) == WithTestedSources(graph, ManifestEntryLookup(m), TimedOf(graph, m, results))
UnsortedOf(graph, m, results) ==
    WithDependedSources(graph, ManifestEntryLookup(m), ProjectName(graph, m, NodeExecutions(results)),
                        TestedOf(graph, m, results))

\* What is looked up of the manifest was entered in it.
LEMMA LookupIsEntered ==
    ASSUME NEW m, IsManifest(m)
    PROVE  LET lookup == ManifestEntryLookup(m)
           IN  IsSequence(lookup) /\ \A e \in ToSet(lookup) : IsEntered(e)
<1> DEFINE lookup == ManifestEntryLookup(m)
<1>1. /\ IsSequence(m.nodes) /\ IsSequence(m.source) /\ IsSequence(m.unit_test)
      /\ IsSequence(m.disabled) /\ IsSequence(m.exposure) /\ IsSequence(m.metric)
  BY DEF IsManifest, Collections
<1>2. IsSequence(lookup)
  BY <1>1, ConcatOwn DEF ManifestEntryLookup
<1>3. \A e \in ToSet(lookup \o m.exposure \o m.metric) : IsEntered(e)
  BY DEF IsManifest
<1> HIDE DEF lookup
<1>4. IsSequence(lookup \o m.exposure) /\ ToSet(lookup) \subseteq ToSet(lookup \o m.exposure)
  BY <1>1, <1>2, ConcatOwn
<1> DEFINE some == lookup \o m.exposure
<1> HIDE DEF some
<1>5. ToSet(some) \subseteq ToSet(some \o m.metric)
  BY <1>1, <1>4, ConcatOwn DEF some
<1> QED  BY <1>2, <1>3, <1>4, <1>5 DEF lookup, some

\* The rows of what was timed, with their types and parents.
LEMMA TimedHolds ==
    ASSUME NEW graph, IsGraph(graph), HasResources(graph), NEW m, IsManifest(m),
           NEW results, IsRun(results)
    PROVE  LET bars == TimedOf(graph, m, results)
               timed == {r \in ToSet(results) : WallClock(r) # NoTiming}
           IN  /\ AreBarRows(bars) /\ FoundIds(bars) = {r.id : r \in timed}
               /\ bars # <<>> => \E b \in ToSet(bars) : b.start = 0
               /\ \A b \in ToSet(bars) : b.type \in TestTypes /\ b.parent # Nobody
                                         => TypeOf(graph, <<>>, b.parent) \notin TestTypes
<1> DEFINE data == GanttData(results)
           lookup == ManifestEntryLookup(m)
           bars == TimedOf(graph, m, results)
           timed == {r \in ToSet(results) : WallClock(r) # NoTiming}
<1>1. /\ IsSequence(data) /\ DistinctIds(data) /\ \A d \in ToSet(data) : IsSpan(d)
      /\ FoundIds(data) = {r.id : r \in timed}
      /\ data # <<>> => \E d \in ToSet(data) : d.start = 0
  BY GanttHolds
<1>2. IsSequence(lookup) /\ \A e \in ToSet(lookup) : IsEntered(e)
  BY LookupIsEntered
<1>3. bars = [i \in DOMAIN data |-> EnrichGanttItem(graph, lookup, data[i])]
  BY DEF TimedOf, TimedRows
<1> HIDE DEF data, lookup, bars, timed
<1>4. PICK N \in Nat : N = Len(data) /\ DOMAIN data = 1 .. N
  BY <1>1, OwnMembers DEF IsSequence
<1>5. \A i \in 1 .. N : /\ bars[i].id = data[i].id /\ bars[i].start = data[i].start
                        /\ bars[i].end = data[i].end
                        /\ bars[i].type \in TestTypes =>
                               bars[i].parent = ResolveTestParent(graph, lookup, data[i].id)
  BY <1>3, <1>4 DEF EnrichGanttItem
<1>6. bars = [i \in 1 .. N |-> bars[i]]
  BY <1>3, <1>4
<1>7. IsSequence(bars) /\ Len(bars) = N /\ DOMAIN bars = 1 .. N
  BY <1>6, OfPlaces
<1>8. \A i \in 1 .. N : IsSpan(bars[i])
  BY <1>1, <1>4, <1>5 DEF IsSpan, ToSet
<1>9. DistinctIds(bars)
  BY <1>1, <1>4, <1>5, <1>7 DEF DistinctIds
<1>10. FoundIds(bars) = FoundIds(data)
  BY <1>4, <1>5, <1>7 DEF FoundIds
<1>11. bars # <<>> => \E b \in ToSet(bars) : b.start = 0
  <2> SUFFICES ASSUME bars # <<>> PROVE \E b \in ToSet(bars) : b.start = 0
    OBVIOUS
  <2>1. N # 0
    BY <1>7
  <2>2. data # <<>>
    BY <1>4, <2>1
  <2>3. PICK i \in 1 .. N : data[i].start = 0
    BY <1>1, <1>4, <2>2 DEF ToSet
  <2>4. bars[i] \in ToSet(bars) /\ bars[i].start = 0
    BY <1>5, <1>7, <2>3 DEF ToSet
  <2> QED  BY <2>4
<1>12. AreBarRows(bars)
  BY <1>7, <1>8, <1>9 DEF AreBarRows, ToSet
<1>13. ASSUME NEW b \in ToSet(bars), b.type \in TestTypes, b.parent # Nobody
       PROVE  TypeOf(graph, <<>>, b.parent) \notin TestTypes
  <2>1. PICK i \in 1 .. N : bars[i] = b
    BY <1>7 DEF ToSet
  <2>2. b.parent = ResolveTestParent(graph, lookup, data[i].id)
    BY <1>5, <1>13, <2>1
  <2> QED  BY <1>2, <1>13, <2>2, ParentIsNoTest
<1> QED  BY <1>1, <1>10, <1>11, <1>12, <1>13 DEF bars, timed

\* All rows before they are sorted.
LEMMA UnsortedHolds ==
    ASSUME NEW graph, IsGraph(graph), HasResources(graph), NEW m, IsManifest(m),
           NEW results, IsRun(results)
    PROVE  LET bars == TimedOf(graph, m, results)
               rows == UnsortedOf(graph, m, results)
               project == ProjectName(graph, m, NodeExecutions(results))
               Stood(n) == StoodForIn(graph, project, ToSet(rows), FoundIds(bars), n)
           IN  /\ AreBarRows(rows) /\ ToSet(bars) \subseteq ToSet(rows)
               /\ bars = <<>> => rows = <<>>
               /\ \A t \in ToSet(rows) : t.type \in TestTypes => t \in ToSet(bars)
               /\ FoundIds(rows)
                      = FoundIds(bars) \cup {n.id : n \in {x \in SourceNodes(graph) : Stood(x) # {}}}
               /\ \A n \in SourceNodes(graph), s \in ToSet(rows) :
                      s.id = n.id /\ n.id \notin FoundIds(bars) => StandsFor(s, Stood(n))
<1> DEFINE lookup == ManifestEntryLookup(m)
           bars == TimedOf(graph, m, results)
           about == TestsAbout(graph, bars)
           q == SyntheticSourceRows(graph, lookup, bars)
           tested == TestedOf(graph, m, results)
           project == ProjectName(graph, m, NodeExecutions(results))
           after == DependentsOf(graph, tested)
           p == SyntheticRowsFromDependents(graph, lookup, project, tested)
           rows == UnsortedOf(graph, m, results)
           sources == SourcesOf(graph)
           here == SourcesIn(graph, project)
           ran == FoundIds(bars)
           known == SourceNodes(graph)
           Stood(n) == StoodForIn(graph, project, ToSet(rows), ran, n)
<1>1. AreBarRows(bars)
  BY TimedHolds
<1>2. /\ q = SyntheticRows(graph, lookup, sources, bars, about)
      /\ p = SyntheticRows(graph, lookup, here, tested, after)
      /\ tested = bars \o q /\ rows = tested \o p
  BY DEF SyntheticSourceRows, SyntheticRowsFromDependents, TestedOf, UnsortedOf, WithTestedSources,
         WithDependedSources
<1>3. /\ IsSequence(sources) /\ DistinctIds(sources) /\ IsSequence(here) /\ DistinctIds(here)
      /\ ToSet(sources) = known /\ ToSet(here) = {n \in known : project \in {0, n.package}}
  BY SourcesAre
<1>4. \A n \in known : n.id \in NodeIds(graph)
  BY IdsOfMembers DEF IsGraph, NodeIds, SourceNodes
<1> HIDE DEF lookup, project, sources, here, bars, about, q, tested, after, p, rows, ran, known, Stood
<1>5. \A s \in NodeIds(graph) : IsSequence(about[s]) /\ ToSet(about[s]) = TestsIn(ToSet(bars), s)
  BY <1>1, MembersAre DEF about
<1>6. \A n \in ToSet(sources) : /\ IsSequence(about[n.id])
                                /\ \A row \in ToSet(about[n.id]) : IsSpan(row)
  BY <1>1, <1>3, <1>4, <1>5 DEF AreBarRows, TestsIn
<1> DEFINE missing == SourcesMissing(sources, bars, about)
<1>7. /\ IsSequence(q) /\ DistinctIds(q) /\ FoundIds(q) = {n.id : n \in missing}
      /\ \A s \in ToSet(q) : /\ s.type = "source" /\ s.parent = Nobody /\ IsSpan(s)
                             /\ StandsFor(s, ToSet(about[s.id]))
  <2> DEFINE r == SyntheticRows(graph, lookup, sources, bars, about)
  <2>1. /\ IsSequence(r) /\ DistinctIds(r) /\ FoundIds(r) = {n.id : n \in missing}
        /\ \A s \in ToSet(r) : /\ s.type = "source" /\ s.parent = Nobody /\ IsSpan(s)
                               /\ StandsFor(s, ToSet(about[s.id]))
    <3>1. /\ IsSequence(sources) /\ DistinctIds(sources)
          /\ \A n \in ToSet(sources) : /\ IsSequence(about[n.id])
                                       /\ \A row \in ToSet(about[n.id]) : IsSpan(row)
      BY <1>3, <1>6
    <3> QED  BY ONLY <3>1, SyntheticHolds
  <2> HIDE DEF r, missing
  <2>2. q = r
    BY <1>2 DEF r
  <2> QED  BY <2>1, <2>2
<1>8. AreBarRows(tested) /\ ToSet(tested) = ToSet(bars) \cup ToSet(q)
  <2>1. AreBarRows(q)
    BY <1>7 DEF AreBarRows
  <2>2. \A id \in FoundIds(q) : id \notin FoundIds(bars)
    BY <1>7 DEF SourcesMissing
  <2> QED  BY <1>1, <1>2, <2>1, <2>2, RowsAreAdded
<1>9. \A s \in NodeIds(graph) :
          IsSequence(after[s]) /\ ToSet(after[s]) = Dependent(graph, ToSet(tested), s)
  BY <1>8, MembersAre DEF after
<1>10. \A n \in ToSet(here) : /\ IsSequence(after[n.id])
                              /\ \A row \in ToSet(after[n.id]) : IsSpan(row)
  BY <1>3, <1>4, <1>8, <1>9 DEF AreBarRows, Dependent
<1> DEFINE others == SourcesMissing(here, tested, after)
<1>11. /\ IsSequence(p) /\ DistinctIds(p) /\ FoundIds(p) = {n.id : n \in others}
       /\ \A s \in ToSet(p) : /\ s.type = "source" /\ s.parent = Nobody /\ IsSpan(s)
                              /\ StandsFor(s, ToSet(after[s.id]))
  <2> DEFINE r == SyntheticRows(graph, lookup, here, tested, after)
  <2>1. /\ IsSequence(r) /\ DistinctIds(r) /\ FoundIds(r) = {n.id : n \in others}
        /\ \A s \in ToSet(r) : /\ s.type = "source" /\ s.parent = Nobody /\ IsSpan(s)
                               /\ StandsFor(s, ToSet(after[s.id]))
    <3>1. /\ IsSequence(here) /\ DistinctIds(here)
          /\ \A n \in ToSet(here) : /\ IsSequence(after[n.id])
                                    /\ \A row \in ToSet(after[n.id]) : IsSpan(row)
      BY <1>3, <1>10
    <3> QED  BY ONLY <3>1, SyntheticHolds
  <2> HIDE DEF r, others
  <2>2. p = r
    BY <1>2 DEF r
  <2> QED  BY <2>1, <2>2
<1>12. AreBarRows(rows) /\ ToSet(rows) = ToSet(tested) \cup ToSet(p)
  <2>1. AreBarRows(p)
    BY <1>11 DEF AreBarRows
  <2>2. \A id \in FoundIds(p) : id \notin FoundIds(tested)
    BY <1>11 DEF SourcesMissing
  <2> QED  BY <1>2, <1>8, <2>1, <2>2, RowsAreAdded
\* Only what was timed is a test, so who has tests does not change as rows are added.
<1>13. \A t \in ToSet(rows) : t.type \in TestTypes => t \in ToSet(bars)
  <2>1. "source" \notin TestTypes
    BY DEF TestTypes
  <2> QED  BY <1>7, <1>8, <1>11, <1>12, <2>1
<1>14. \A id : TestsIn(ToSet(rows), id) = TestsIn(ToSet(bars), id)
  BY <1>8, <1>12, <1>13 DEF TestsIn
<1>15. \A c : IsSequence(c) => (c # <<>> <=> ToSet(c) # {})
  <2> SUFFICES ASSUME NEW c, IsSequence(c) PROVE c # <<>> <=> ToSet(c) # {}
    OBVIOUS
  <2>1. c \in Seq(ToSet(c)) /\ Len(c) \in Nat /\ \A i \in 1 .. Len(c) : c[i] \in ToSet(c)
    BY OwnMembers DEF IsSequence
  <2>2. c = <<>> => ToSet(c) = {}
    BY DEF ToSet
  <2>3. c # <<>> => 1 \in 1 .. Len(c)
    BY <2>1, EmptySeq
  <2> QED  BY <2>1, <2>2, <2>3
\* Which sources have a row, and of which kind.
<1>16. FoundIds(q) = {n.id : n \in {x \in known : x.id \notin ran /\ TestsIn(ToSet(bars), x.id) # {}}}
  <2>1. missing = {x \in known : x.id \notin ran /\ TestsIn(ToSet(bars), x.id) # {}}
    BY <1>3, <1>4, <1>5, <1>15 DEF SourcesMissing, ran
  <2> HIDE DEF missing
  <2> QED  BY <1>7, <2>1
<1>17. FoundIds(tested) = ran \cup FoundIds(q) /\ FoundIds(rows) = FoundIds(tested) \cup FoundIds(p)
  <2>1. /\ FoundIds(tested) = {x.id : x \in ToSet(tested)} /\ ran = {x.id : x \in ToSet(bars)}
        /\ FoundIds(q) = {x.id : x \in ToSet(q)} /\ FoundIds(p) = {x.id : x \in ToSet(p)}
        /\ FoundIds(rows) = {x.id : x \in ToSet(rows)}
    BY <1>1, <1>7, <1>8, <1>11, <1>12, IdsOfMembers DEF AreBarRows, ran
  <2> QED  BY <1>8, <1>12, <2>1
<1>18. FoundIds(p) = {n.id : n \in {x \in known : /\ project \in {0, x.package}
                                                  /\ x.id \notin FoundIds(tested)
                                                  /\ Dependent(graph, ToSet(tested), x.id) # {}}}
  <2>1. others = {x \in known : /\ project \in {0, x.package} /\ x.id \notin FoundIds(tested)
                                /\ Dependent(graph, ToSet(tested), x.id) # {}}
    BY <1>3, <1>4, <1>9, <1>15 DEF SourcesMissing
  <2> HIDE DEF others
  <2> QED  BY <1>11, <2>1
<1>19. \A id \in FoundIds(p) : id \notin ran /\ TestsIn(ToSet(bars), id) = {}
  <2> SUFFICES ASSUME NEW id \in FoundIds(p) PROVE id \notin ran /\ TestsIn(ToSet(bars), id) = {}
    OBVIOUS
  <2>1. PICK n \in known : n.id = id /\ id \notin FoundIds(tested)
    BY <1>18
  <2> QED  BY <1>16, <1>17, <2>1
<1>20. \A s \in ToSet(q) : s.id \in FoundIds(q)
  BY <1>7, IdsOfMembers
<1>21. \A s \in ToSet(p) : s.id \in FoundIds(p)
  BY <1>11, IdsOfMembers
<1>22. \A s \in ToSet(bars) : s.id \in ran
  BY <1>1, IdsOfMembers DEF AreBarRows, ran
\* The dependents that had a row before those of dependents were added.
<1>23. \A r \in ToSet(rows) : r \in ToSet(tested) <=> (r.id \in ran \/ TestsIn(ToSet(rows), r.id) # {})
  <2>1. \A r \in ToSet(q) : TestsIn(ToSet(bars), r.id) # {}
    BY <1>16, <1>20
  <2>2. \A r \in ToSet(p) : r.id \notin ran /\ TestsIn(ToSet(bars), r.id) = {}
    BY <1>19, <1>21
  <2> QED  BY <1>8, <1>12, <1>14, <1>22, <2>1, <2>2
<1>24. \A n \in known : project \in {0, n.package} =>
           DependentsIn(graph, project, ToSet(rows), ran, n) = Dependent(graph, ToSet(tested), n.id)
  <2>1. ToSet(tested) \subseteq ToSet(rows)
    BY <1>12
  <2> QED  BY <1>23, <2>1 DEF DependentsIn, Dependent
<1>25. \A n : project \notin {0, n.package} => DependentsIn(graph, project, ToSet(rows), ran, n) = {}
  BY DEF DependentsIn
<1>26. \A n : Stood(n) = IF TestsIn(ToSet(bars), n.id) # {} THEN TestsIn(ToSet(bars), n.id)
                         ELSE DependentsIn(graph, project, ToSet(rows), ran, n)
  BY <1>14 DEF Stood, StoodForIn
<1>27. \A n \in known : n.id \notin ran => (n.id \in FoundIds(rows) <=> Stood(n) # {})
  <2> SUFFICES ASSUME NEW n \in known, n.id \notin ran PROVE n.id \in FoundIds(rows) <=> Stood(n) # {}
    OBVIOUS
  <2>1. CASE TestsIn(ToSet(bars), n.id) # {}
    <3>1. n.id \in FoundIds(q)
      BY <1>16, <2>1
    <3> QED  BY <1>17, <1>26, <2>1, <3>1
  <2>2. CASE TestsIn(ToSet(bars), n.id) = {}
    <3>1. n.id \notin FoundIds(q) /\ n.id \notin FoundIds(tested)
      BY <1>16, <1>17, <2>2
    <3>2. Stood(n) = DependentsIn(graph, project, ToSet(rows), ran, n)
      BY <1>26, <2>2
    <3>3. CASE Stood(n) # {}
      <4>1. project \in {0, n.package}
        BY <1>25, <3>2, <3>3
      <4>2. Dependent(graph, ToSet(tested), n.id) # {}
        BY <1>24, <3>2, <3>3, <4>1
      <4>3. n.id \in FoundIds(p)
        BY <1>18, <3>1, <4>1, <4>2
      <4> QED  BY <1>17, <3>3, <4>3
    <3>4. CASE n.id \in FoundIds(rows)
      <4>1. n.id \in FoundIds(p)
        BY <1>17, <3>1, <3>4
      <4>2. PICK x \in known : /\ x.id = n.id /\ project \in {0, x.package}
                               /\ Dependent(graph, ToSet(tested), x.id) # {}
        BY <1>18, <4>1
      <4>3. x = n
        <5>1. known \subseteq ToSet(graph.nodes) /\ DistinctIds(graph.nodes) /\ IsSequence(graph.nodes)
          BY DEF IsGraph, known, SourceNodes
        <5>2. DOMAIN graph.nodes = 1 .. Len(graph.nodes)
          BY <5>1, OwnMembers
        <5>3. PICK i, j \in 1 .. Len(graph.nodes) : graph.nodes[i] = x /\ graph.nodes[j] = n
          BY <5>1, <5>2 DEF ToSet
        <5> QED  BY <4>2, <5>1, <5>3 DEF DistinctIds
      <4> QED  BY <1>24, <3>2, <3>4, <4>2, <4>3
    <3> QED  BY <3>3, <3>4
  <2> QED  BY <2>1, <2>2
<1>28. FoundIds(rows) = ran \cup {n.id : n \in {x \in known : Stood(x) # {}}}
  <2>1. \A id \in FoundIds(rows) : id \in ran \/ \E n \in known : n.id = id
    BY <1>16, <1>17, <1>18
  <2>2. ran \subseteq FoundIds(rows)
    BY <1>17
  <2> QED  BY <1>27, <2>1, <2>2
<1>29. ASSUME NEW n \in known, NEW s \in ToSet(rows), s.id = n.id, n.id \notin ran
       PROVE  StandsFor(s, Stood(n))
  <2>1. s \in ToSet(q) \/ s \in ToSet(p)
    BY <1>8, <1>12, <1>22, <1>29
  <2>2. n.id \in NodeIds(graph)
    BY <1>4
  <2>3. CASE s \in ToSet(q)
    <3>1. TestsIn(ToSet(bars), n.id) # {}
      BY <1>16, <1>20, <1>29, <2>3
    <3> QED  BY <1>5, <1>7, <1>26, <1>29, <2>2, <2>3, <3>1
  <2>4. CASE s \in ToSet(p)
    <3>1. n.id \in FoundIds(p) /\ TestsIn(ToSet(bars), n.id) = {}
      BY <1>19, <1>21, <1>29, <2>4
    <3>2. n.id \in FoundIds(rows)
      BY <1>17, <3>1
    <3>3. Stood(n) # {} /\ Stood(n) = DependentsIn(graph, project, ToSet(rows), ran, n)
      BY <1>26, <1>27, <1>29, <3>1, <3>2
    <3>4. project \in {0, n.package}
      BY <1>25, <3>3
    <3>5. Stood(n) = ToSet(after[n.id])
      BY <1>9, <1>24, <2>2, <3>3, <3>4
    <3> QED  BY <1>11, <1>29, <2>4, <3>5
  <2> QED  BY <2>1, <2>3, <2>4
<1>30. ASSUME bars = <<>> PROVE rows = <<>>
  <2>1. ToSet(bars) = {} /\ ran = {}
    BY <1>30 DEF ToSet, ran, FoundIds
  <2>2. \A id : TestsIn(ToSet(bars), id) = {}
    BY <2>1 DEF TestsIn
  <2>3. FoundIds(q) = {}
    BY <1>16, <2>2
  <2>4. ToSet(tested) = {}
    BY <1>8, <1>20, <2>1, <2>3
  <2>5. \A id : Dependent(graph, ToSet(tested), id) = {}
    BY <2>4 DEF Dependent
  <2>6. FoundIds(p) = {}
    BY <1>18, <2>5
  <2>7. ToSet(rows) = {}
    BY <1>12, <1>21, <2>4, <2>6
  <2> QED  BY <1>12, <1>15, <2>7 DEF AreBarRows
<1>31. ToSet(bars) \subseteq ToSet(rows)
  BY <1>8, <1>12
<1> QED  BY <1>12, <1>13, <1>28, <1>29, <1>30, <1>31 DEF bars, rows, ran, known, project, Stood

\* The rows sorted: from 0 in the order of their start.
LEMMA TimelineHasRows ==
    ASSUME NEW graph, IsGraph(graph), HasResources(graph), NEW m, IsManifest(m),
           NEW results, IsRun(results)
    PROVE  LET bars == TimedOf(graph, m, results)
               rows == Timeline(graph, m, results)
           IN  /\ AreBarRows(rows) /\ ToSet(rows) = ToSet(UnsortedOf(graph, m, results))
               /\ \A i, j \in 1 .. Len(rows) : i <= j => rows[i].start <= rows[j].start
               /\ rows # <<>> => rows[1].start = 0
<1> DEFINE bars == TimedOf(graph, m, results)
           all == UnsortedOf(graph, m, results)
           rows == Timeline(graph, m, results)
<1>1. /\ AreBarRows(all) /\ ToSet(bars) \subseteq ToSet(all)
      /\ bars = <<>> => all = <<>>
  BY UnsortedHolds
<1>2. rows = SortedRows(all)
  BY DEF Timeline, UnsortedOf, TestedOf, TimedOf
<1>3. bars # <<>> => \E b \in ToSet(bars) : b.start = 0
  BY TimedHolds
<1> HIDE DEF bars, all, rows
<1>4. \A row \in ToSet(all) : row.start \in Int /\ row.start >= 0
  BY <1>1 DEF AreBarRows, IsSpan
<1>5. /\ rows \in Seq(ToSet(all)) /\ ToSet(rows) = ToSet(all)
      /\ DistinctIds(rows)
      /\ \A i, j \in 1 .. Len(rows) : i <= j => rows[i].start <= rows[j].start
  BY <1>1, <1>2, <1>4, SortedByStart DEF AreBarRows
<1>6. IsSequence(rows) /\ Len(rows) \in Nat /\ DOMAIN rows = 1 .. Len(rows)
      /\ \A i \in 1 .. Len(rows) : rows[i] \in ToSet(rows)
  BY <1>5, OwnMembers
<1>7. AreBarRows(rows)
  BY <1>1, <1>5, <1>6 DEF AreBarRows
<1>8. rows # <<>> => rows[1].start = 0
  <2> SUFFICES ASSUME rows # <<>> PROVE rows[1].start = 0
    OBVIOUS
  <2>1. 1 \in 1 .. Len(rows)
    BY <1>5, <1>6, EmptySeq
  <2>2. rows[1] \in ToSet(all)
    BY <1>5, <1>6, <2>1
  <2>3. all # <<>>
    BY <2>2 DEF ToSet
  <2>4. PICK b \in ToSet(bars) : b.start = 0
    BY <1>1, <1>3, <2>3
  <2>5. PICK j \in 1 .. Len(rows) : rows[j] = b
    BY <1>1, <1>5, <1>6 DEF ToSet
  <2>6. rows[1].start <= 0
    BY <1>5, <2>1, <2>4, <2>5
  <2> QED  BY <1>4, <2>2, <2>6
<1> QED  BY <1>5, <1>7, <1>8 DEF rows, all

\* The ids of rows that differ are as many as the rows.
LEMMA IdsAreCounted ==
    ASSUME NEW rows, IsSequence(rows), DistinctIds(rows)
    PROVE  NoneTwice(RowIds([rows |-> rows]))
<1> DEFINE c == [i \in DOMAIN rows |-> rows[i].id]
<1>1. PICK N \in Nat : N = Len(rows) /\ DOMAIN rows = 1 .. N
  BY OwnMembers DEF IsSequence
<1>2. c = [i \in 1 .. N |-> c[i]] /\ \A i \in 1 .. N : c[i] = rows[i].id
  BY <1>1
<1>3. RowIds([rows |-> rows]) = c
  BY DEF RowIds
<1> HIDE DEF c
<1>4. IsSequence(c) /\ Len(c) = N /\ c \in Seq(ToSet(c))
  BY <1>2, OfPlaces DEF IsSequence
<1>5. \A i, j \in 1 .. Len(c) : c[i] = c[j] => i = j
  BY <1>1, <1>2, <1>4 DEF DistinctIds
<1> QED  BY <1>3, <1>4, <1>5, DistinctCount DEF NoneTwice

\* The timeline of a snapshot is consistent.
LEMMA AnalysisIsConsistent ==
    ASSUME bundle \in Bundles, answer.given = Snapshot(bundle.manifest, bundle.results)
    PROVE  TimelineIsConsistent
<1> DEFINE m == bundle.manifest
           results == bundle.results
           project == answer.given.project
           list == answer.given.gantt
           bars == TimedOf(Graph, m, results)
           all == UnsortedOf(Graph, m, results)
           ran == {r.id : r \in {x \in ToSet(bundle.results) : WallClock(x) # NoTiming}}
           rows == ToSet(list)
           sources == {n \in ToSet(Graph.nodes) : n.type = "source"}
           Stood(n) == StoodForIn(Graph, project, rows, ran, n)
<1>1. IsManifest(m) /\ IsRun(results)
  BY BundlesAreRuns
<1>2. IsGraph(Graph) /\ HasResources(Graph)
  BY <1>1, BuiltIsGraph, GraphIsOfEntries DEF Graph
<1>3. list = Timeline(Graph, m, results) /\ project = ProjectName(Graph, m, NodeExecutions(results))
  <2>1. Snapshot(m, results) = SnapshotOver(Graph, m, results, NodeExecutions(results))
    BY DEF Snapshot, Graph
  <2>2. \A x : /\ SnapshotOver(Graph, m, results, x).gantt = Timeline(Graph, m, results)
               /\ SnapshotOver(Graph, m, results, x).project = ProjectName(Graph, m, x)
    BY DEF SnapshotOver, SnapshotOf
  <2> QED  BY <2>1, <2>2
<1>4. /\ AreBarRows(list) /\ rows = ToSet(all)
      /\ \A i, j \in 1 .. Len(list) : i <= j => list[i].start <= list[j].start
      /\ list # <<>> => list[1].start = 0
  <2> HIDE DEF list
  <2> QED  BY <1>1, <1>2, <1>3, TimelineHasRows
<1>5. /\ FoundIds(bars) = ran /\ AreBarRows(bars)
      /\ \A b \in ToSet(bars) : b.type \in TestTypes /\ b.parent # Nobody
                                => TypeOf(Graph, <<>>, b.parent) \notin TestTypes
  BY <1>1, <1>2, TimedHolds
<1>6. /\ AreBarRows(all)
      /\ \A t \in ToSet(all) : t.type \in TestTypes => t \in ToSet(bars)
      /\ FoundIds(all)
             = FoundIds(bars) \cup
               {n.id : n \in {x \in sources :
                                  StoodForIn(Graph, project, ToSet(all), FoundIds(bars), x) # {}}}
      /\ \A n \in sources, s \in ToSet(all) :
             s.id = n.id /\ n.id \notin FoundIds(bars)
                 => StandsFor(s, StoodForIn(Graph, project, ToSet(all), FoundIds(bars), n))
  <2>1. sources = SourceNodes(Graph)
    BY DEF SourceNodes
  <2> HIDE DEF project, sources
  <2> QED  BY <1>1, <1>2, <1>3, <2>1, UnsortedHolds
<1> HIDE DEF list, bars, all, ran, m, results, project, rows, sources
<1>8. IsSequence(list) /\ Len(list) \in Nat /\ DOMAIN list = 1 .. Len(list)
      /\ \A i \in 1 .. Len(list) : list[i] \in rows
  BY <1>4, OwnMembers DEF AreBarRows, IsSequence, rows
<1>9. NoneTwice(RowIds([rows |-> list]))
  BY <1>4, IdsAreCounted DEF AreBarRows
<1>10. {r.id : r \in rows} = ran \cup {n.id : n \in {x \in sources : Stood(x) # {}}}
  <2>1. FoundIds(all) = {r.id : r \in rows}
    BY <1>4, <1>6, IdsOfMembers DEF AreBarRows
  <2>2. \A n : Stood(n) = StoodForIn(Graph, project, ToSet(all), FoundIds(bars), n)
    BY <1>4, <1>5
  <2> QED  BY <1>5, <1>6, <2>1, <2>2
<1>11. \A n \in sources : \A s \in rows : s.id = n.id /\ n.id \notin ran => StandsFor(s, Stood(n))
  BY <1>4, <1>5, <1>6
<1>12. \A i, j \in DOMAIN list : i < j => list[i].start <= list[j].start
  BY <1>4, <1>8
<1>13. \A r \in rows : r.start <= r.end
  BY <1>4 DEF AreBarRows, IsSpan, rows
<1>14. \A t \in rows : t.type \in TestTypes /\ t.parent # Nobody
                       => TypeOf(Graph, <<>>, t.parent) \notin TestTypes
  BY <1>4, <1>5, <1>6
<1>15. list # <<>> => list[1].start = 0
  BY <1>4
<1> QED  BY <1>9, <1>10, <1>11, <1>12, <1>13, <1>14, <1>15
         DEF TimelineIsConsistent, StoodForIn, DependentsIn, TestsIn, Stood, project, list, rows, ran,
             sources

-----------------------------------------------------------------------------
(* The answer.  An analysis is the snapshot of the bundle in hand. *)
AnalysisInv ==
    /\ scene = "questions" => bundle \in Bundles
    /\ answer.kind = "analysis" =>
           bundle \in Bundles /\ answer.given = Snapshot(bundle.manifest, bundle.results)

\* The parts of an answer.
LEMMA KindOfAnswer ==
    ASSUME NEW kind, NEW asked, NEW given, Answers(kind, asked, given)
    PROVE  answer'.kind = kind /\ answer'.asked = asked /\ answer'.given = given
BY DEF Answers

\* An analysis stays the one of the bundle in hand.
LEMMA AnalysisStep ==
    ASSUME AnalysisInv, [Next]_investigationVars
    PROVE  AnalysisInv'
<1>1. CASE QuestionsNext /\ UNCHANGED <<scene, bundle>>
  <2>1. CASE Analyze
    <3>1. scene = "questions" /\ bundle \in Bundles
      BY <2>1 DEF AnalysisInv, Analyze, Asks
    <3>2. answer' = [kind |-> "analysis", asked |-> <<>>, given |-> Snapshot(bundle.manifest, bundle.results)]
      BY <2>1 DEF Analyze, Answers
    <3> QED  BY <1>1, <3>1, <3>2 DEF AnalysisInv
  <2>2. CASE ~Analyze
    <3>1. answer'.kind # "analysis"
      <4>1. \E kind \in {"dependencies", "field", "subgraph", "impact", "search", "explain", "list",
                          "failure"} :
               \E asked, given : Answers(kind, asked, given)
        BY <1>1, <2>2 DEF QuestionsNext, AskDependencies, AskFieldDependencies, AskSubgraph,
               AskImpact, Search, AskExplain, AskPage, FollowPage, TurnTo
      <4> QED  BY <4>1, KindOfAnswer
    <3> QED  BY <1>1, <3>1 DEF AnalysisInv
  <2> QED  BY <2>1, <2>2
<1>2. CASE UNCHANGED <<scene, bundle, answer>>
  BY <1>2 DEF AnalysisInv
<1> QED  BY <1>1, <1>2 DEF Next, investigationVars

\* So its timeline is consistent.
LEMMA AnalyzedIsConsistent ==
    ASSUME AnalysisInv
    PROVE  TimelineIsConsistent
<1>1. CASE answer.kind = "analysis"
  BY <1>1, AnalysisIsConsistent DEF AnalysisInv
<1>2. CASE answer.kind # "analysis"
  BY <1>2 DEF TimelineIsConsistent
<1> QED  BY <1>1, <1>2

(* The timeline of every analysis has a row for each execution that was timed and for each     *)
(* source that stands for tests or dependents, once and no other; the row of a source that did *)
(* not run spans what it stands for and has the worst of their statuses, the rows are in the   *)
(* order of their start, and no test is about a test, whatever the manifest and the results    *)
(* are (gantt.ts:245, 331).                                                                    *)
THEOREM TimelineIsConsistentAlways == Spec => []TimelineIsConsistent
<1>1. Init => AnalysisInv
  BY DEF Init, AnalysisInv, StartQuestions, IdleQuestions, NoAnswer
<1> QED  BY <1>1, AnalysisStep, AnalyzedIsConsistent, PTL DEF Spec

-----------------------------------------------------------------------------
(* The neighbours of a node join what was found, unless they were. *)
IsExtension(V, f, ids, parent, depth, g) ==
    /\ g \in Seq(FoundIn(V)) /\ DistinctIds(g) /\ Len(f) <= Len(g)
    /\ \A i \in 1 .. Len(f) : g[i] = f[i]
    /\ \A i \in Len(f) + 1 .. Len(g) :
           g[i].depth = depth /\ g[i].parent = parent /\ g[i].id \in ids \ FoundIds(f)
    /\ FoundIds(g) = FoundIds(f) \cup ids

\* One neighbour is appended, unless it was found.
LEMMA VisitExtends ==
    ASSUME NEW V, NEW f \in Seq(FoundIn(V)), NEW ids \in SUBSET V, NEW parent \in V,
           NEW depth \in Nat \ {0}, NEW g, IsExtension(V, f, ids, parent, depth, g), NEW id \in V
    PROVE  IsExtension(V, f, ids \cup {id}, parent, depth, VisitNode(g, id, parent, depth))
<1> DEFINE e == [id |-> id, depth |-> depth, parent |-> parent]
           h == VisitNode(g, id, parent, depth)
<1>1. Len(f) \in Nat /\ Len(g) \in Nat /\ DOMAIN g = 1 .. Len(g) /\ g \in Seq(FoundIn(V))
      /\ FoundIds(g) = {g[i].id : i \in 1 .. Len(g)}
  BY FoundOf DEF IsExtension
<1>2. CASE id \in FoundIds(g)
  <2>1. h = g
    BY <1>2 DEF VisitNode
  <2>2. FoundIds(g) = FoundIds(f) \cup (ids \cup {id})
    BY <1>2 DEF IsExtension
  <2>3. \A x : x \in ids \ FoundIds(f) => x \in (ids \cup {id}) \ FoundIds(f)
    OBVIOUS
  <2> QED  BY <2>1, <2>2, <2>3 DEF IsExtension
<1>3. CASE id \notin FoundIds(g)
  <2>1. h = Append(g, e)
    BY <1>3 DEF VisitNode
  <2>2. e \in FoundIn(V) /\ e.id = id /\ e.depth = depth /\ e.parent = parent
    BY DEF FoundIn
  <2> HIDE DEF e
  <2>3. /\ h \in Seq(FoundIn(V)) /\ Len(h) = Len(g) + 1 /\ h[Len(g) + 1] = e
        /\ \A i \in 1 .. Len(g) : h[i] = g[i]
    BY <1>1, <2>1, <2>2, AppendProperties
  <2>4. \A y \in ToSet(g) : y.id # id
    BY <1>1, <1>3 DEF ToSet
  <2>5. DistinctIds(h)
    BY <1>1, <2>1, <2>2, <2>4, AppendMembers DEF IsExtension
  <2> HIDE DEF h
  <2>6. FoundIds(h) = FoundIds(g) \cup {id}
    <3>1. FoundIds(h) = {h[i].id : i \in 1 .. Len(g) + 1}
      BY <2>3, FoundOf
    <3>2. 1 .. Len(g) + 1 = 1 .. Len(g) \cup {Len(g) + 1}
      BY <1>1
    <3> QED  BY <1>1, <2>2, <2>3, <3>1, <3>2
  <2>7. \A i \in 1 .. Len(f) : h[i] = f[i]
    <3>1. \A i \in 1 .. Len(f) : i \in 1 .. Len(g)
      BY <1>1 DEF IsExtension
    <3> QED  BY <2>3, <3>1 DEF IsExtension
  <2>8. ASSUME NEW i \in Len(f) + 1 .. Len(h)
        PROVE  /\ h[i].depth = depth /\ h[i].parent = parent
               /\ h[i].id \in (ids \cup {id}) \ FoundIds(f)
    <3>1. CASE i = Len(g) + 1
      BY <1>3, <2>2, <2>3, <3>1 DEF IsExtension
    <3>2. CASE i # Len(g) + 1
      <4>1. i \in Len(f) + 1 .. Len(g) /\ i \in 1 .. Len(g)
        BY <1>1, <2>3, <3>2
      <4> QED  BY <2>3, <4>1 DEF IsExtension
    <3> QED  BY <3>1, <3>2
  <2>9. Len(f) <= Len(h)
    BY <1>1, <2>3 DEF IsExtension
  <2>10. FoundIds(h) = FoundIds(f) \cup (ids \cup {id})
    BY <2>6 DEF IsExtension
  <2> QED  BY <2>3, <2>5, <2>7, <2>8, <2>9, <2>10 DEF IsExtension, h
<1> QED  BY <1>2, <1>3

\* Neighbours are looked at one at a time.
LEMMA EnqueueUnfolds ==
    ASSUME NEW found, NEW ids, NEW parent, NEW depth, Len(ids) \in Nat
    PROVE  \E g : /\ g[0] = found /\ EnqueueNeighbors(found, ids, parent, depth) = g[Len(ids)]
                  /\ \A n \in 1 .. Len(ids) : g[n] = VisitNode(g[n - 1], ids[n], parent, depth)
<1> DEFINE N == Len(ids)
           zero == found
           F(q, n) == VisitNode(q, ids[n], parent, depth)
           Defines(f, m) == f = [n \in 0 .. m |-> IF n = 0 THEN zero ELSE F(f[n - 1], n)]
           done == {m \in 0 .. N : \E f : Defines(f, m)}
<1>1. N \in Nat
  OBVIOUS
<1>2. EnqueueNeighbors(found, ids, parent, depth) = (CHOOSE f : Defines(f, N))[N]
  BY DEF EnqueueNeighbors
<1> HIDE DEF F, N, zero
<1>3. 0 \in done
  <2> DEFINE f == [n \in 0 .. 0 |-> zero]
  <2>1. Defines(f, 0)
    OBVIOUS
  <2> HIDE DEF Defines, f
  <2> QED  BY <1>1, <2>1
<1>4. ASSUME NEW m \in 1 .. N, m - 1 \in done PROVE m \in done
  <2>1. PICK f : Defines(f, m - 1)
    BY <1>4
  <2>2. \A k \in 0 .. m - 1 : f[k] = IF k = 0 THEN zero ELSE F(f[k - 1], k)
    BY <2>1, Zenon
  <2> DEFINE g == [k \in 0 .. m |-> IF k = m THEN F(f[m - 1], m) ELSE f[k]]
  <2>3. g[m] = F(f[m - 1], m) /\ \A k \in 0 .. m - 1 : g[k] = f[k]
    BY <1>1
  <2>4. g = [k \in 0 .. m |-> g[k]]
    OBVIOUS
  <2> HIDE DEF g, Defines
  <2>5. \A k \in 0 .. m : g[k] = IF k = 0 THEN zero ELSE F(g[k - 1], k)
    <3> TAKE k \in 0 .. m
    <3>1. CASE k = m
      <4>1. m # 0 /\ m - 1 \in 0 .. m - 1
        OBVIOUS
      <4> QED  BY <2>3, <3>1, <4>1
    <3>2. CASE k # m
      <4>1. k \in 0 .. m - 1 /\ (k # 0 => k - 1 \in 0 .. m - 1)
        BY <3>2
      <4> QED  BY <2>2, <2>3, <4>1
    <3> QED  BY <3>1, <3>2
  <2>6. Defines(g, m)
    BY <2>4, <2>5 DEF Defines
  <2>7. m \in 0 .. N
    BY <1>1
  <2> QED  BY <2>6, <2>7
<1> HIDE DEF done
<1>5. 0 .. N \subseteq done
  BY <1>1, <1>3, <1>4, BoundedInduction
<1>6. N \in done
  BY <1>1, <1>5
<1> DEFINE g == CHOOSE f : Defines(f, N)
<1>7. Defines(g, N)
  <2> HIDE DEF Defines
  <2> QED  BY <1>6 DEF done
<1> HIDE DEF g
<1>8. \A n \in 0 .. N : g[n] = IF n = 0 THEN zero ELSE F(g[n - 1], n)
  BY <1>7, Zenon
<1>9. g[0] = zero /\ \A n \in 1 .. N : g[n] = F(g[n - 1], n)
  <2>1. 0 \in 0 .. N /\ \A n \in 1 .. N : n \in 0 .. N /\ n # 0
    BY <1>1
  <2> QED  BY <1>8, <2>1
<1>10. EnqueueNeighbors(found, ids, parent, depth) = g[N]
  BY <1>2 DEF g
<1> QED  BY <1>9, <1>10 DEF N, F, zero

\* All neighbours are appended, unless they were found.
LEMMA EnqueueExtends ==
    ASSUME NEW V, NEW f \in Seq(FoundIn(V)), DistinctIds(f), NEW ids, IsSequence(ids),
           ToSet(ids) \subseteq V, NEW parent \in V, NEW depth \in Nat \ {0}
    PROVE  IsExtension(V, f, ToSet(ids), parent, depth, EnqueueNeighbors(f, ids, parent, depth))
<1>1. PICK N \in Nat : N = Len(ids) /\ DOMAIN ids = 1 .. N
  BY OwnMembers DEF IsSequence
<1>2. PICK g : /\ g[0] = f /\ EnqueueNeighbors(f, ids, parent, depth) = g[N]
               /\ \A n \in 1 .. N : g[n] = VisitNode(g[n - 1], ids[n], parent, depth)
  BY <1>1, EnqueueUnfolds
<1>3. \A n \in 1 .. N : ids[n] \in V
  BY <1>1 DEF ToSet
<1> DEFINE done == {n \in 0 .. N : IsExtension(V, f, FirstPart(ids, n), parent, depth, g[n])}
<1>4. 0 \in done
  <2>1. FirstPart(ids, 0) = {}
    BY DEF FirstPart
  <2>2. Len(f) \in Nat
    BY LenProperties
  <2>3. IsExtension(V, f, {}, parent, depth, f)
    <3>1. ~\E i : i \in Len(f) + 1 .. Len(f)
      BY <2>2
    <3> QED  BY <2>2, <3>1 DEF IsExtension
  <2>4. 0 \in 0 .. N
    OBVIOUS
  <2>5. IsExtension(V, f, FirstPart(ids, 0), parent, depth, g[0])
    <3>1. g[0] = f
      BY <1>2
    <3> QED  BY <2>1, <2>3, <3>1, Zenon
  <2> QED  BY <2>4, <2>5
<1>5. ASSUME NEW n \in 1 .. N, n - 1 \in done PROVE n \in done
  <2>1. PICK ext : ext = FirstPart(ids, n - 1)
    OBVIOUS
  <2>2. FirstPart(ids, n) = ext \cup {ids[n]}
    BY <1>1, <2>1, PartGrows
  <2>3. ext \in SUBSET V
    BY <1>3, <2>1 DEF FirstPart
  <2>4. PICK q : q = g[n - 1] /\ IsExtension(V, f, ext, parent, depth, q)
    BY <1>5, <2>1
  <2>5. IsExtension(V, f, ext \cup {ids[n]}, parent, depth, VisitNode(q, ids[n], parent, depth))
    BY <1>3, <2>3, <2>4, VisitExtends
  <2>6. IsExtension(V, f, FirstPart(ids, n), parent, depth, g[n]) /\ n \in 0 .. N
    <3>1. g[n] = VisitNode(q, ids[n], parent, depth)
      BY <1>2, <2>4
    <3> QED  BY <2>2, <2>5, <3>1
  <2> QED  BY <2>6
<1> HIDE DEF done
<1>6. 0 .. N \subseteq done /\ N \in 0 .. N
  BY <1>4, <1>5, BoundedInduction
<1>7. FirstPart(ids, N) = ToSet(ids)
  BY <1>1 DEF FirstPart, ToSet
<1>8. IsExtension(V, f, FirstPart(ids, N), parent, depth, g[N])
  BY <1>6 DEF done
<1> QED  BY <1>2, <1>7, <1>8

-----------------------------------------------------------------------------
(* Breadth first: what was found after the first k entries were looked at. *)
InOrderOfDepth(f) == \A i, j \in 1 .. Len(f) : i <= j => f[i].depth <= f[j].depth
Expanded(adj, maxDepth, k, f) ==
    \A i \in 1 .. Len(f) : i <= k /\ Within(f[i].depth, maxDepth) => adj[f[i].id] \subseteq FoundIds(f)
DepthAt(f, k) == IF k = 0 THEN 0 ELSE f[k].depth
Frontier(k, f) == k <= Len(f) => \A j \in 1 .. Len(f) : f[j].depth <= DepthAt(f, k) + 1
AreBounded(maxDepth, f) == \A i \in 1 .. Len(f) : f[i].depth <= i /\ Within(f[i].depth - 1, maxDepth)
AreParented(adj, root, f) ==
    \A i \in 1 .. Len(f) :
        /\ f[i].id \in adj[f[i].parent]
        /\ \/ f[i].depth = 1 /\ f[i].parent = root
           \/ \E j \in 1 .. Len(f) : f[j].id = f[i].parent /\ f[j].depth = f[i].depth - 1
Visited(V, adj, root, W, maxDepth, k, f) ==
    /\ AreFound(V, W, f) /\ adj[root] \subseteq FoundIds(f) /\ Expanded(adj, maxDepth, k, f)
    /\ InOrderOfDepth(f) /\ Frontier(k, f) /\ AreBounded(maxDepth, f) /\ AreParented(adj, root, f)
IsLimit(maxDepth) == maxDepth \in {Unlimited} \cup (Nat \ {0})

\* The neighbours of the root are found first, at depth 1.
LEMMA FirstVisited ==
    ASSUME NEW V, NEW adj, NEW root, NEW W, AreWalks(V, adj, root, W),
           NEW maxDepth, IsLimit(maxDepth),
           NEW f, IsExtension(V, <<>>, adj[root], root, 1, f)
    PROVE  Visited(V, adj, root, W, maxDepth, 0, f)
<1>1. Len(<<>>) = 0 /\ FoundIds(<<>>) = {}
  BY DEF FoundIds
<1>2. /\ Len(f) \in Nat /\ \A i \in 1 .. Len(f) : f[i] \in FoundIn(V)
      /\ f \in Seq(FoundIn(V)) /\ DistinctIds(f) /\ FoundIds(f) = adj[root]
  BY <1>1, FoundOf DEF IsExtension
<1>3. \A i \in 1 .. Len(f) : f[i].depth = 1 /\ f[i].parent = root /\ f[i].id \in adj[root]
  BY <1>1 DEF IsExtension
<1>4. adj[root] \subseteq W[1]
  <2>1. W[0 + 1] = W[0] \cup UNION {adj[x] : x \in W[0] \cup {root}}
    BY DEF AreWalks
  <2> QED  BY <2>1
<1>5. AreFound(V, W, f)
  BY <1>2, <1>3, <1>4 DEF AreFound, IsFarAs
<1>6. Expanded(adj, maxDepth, 0, f)
  BY <1>2 DEF Expanded
<1>7. InOrderOfDepth(f) /\ Frontier(0, f) /\ AreParented(adj, root, f)
  BY <1>2, <1>3 DEF InOrderOfDepth, Frontier, DepthAt, AreParented
<1>8. AreBounded(maxDepth, f)
  <2>1. Within(1 - 1, maxDepth)
    BY DEF Within, IsLimit, Unlimited
  <2> QED  BY <1>2, <1>3, <2>1 DEF AreBounded
<1> QED  BY <1>2, <1>5, <1>6, <1>7, <1>8 DEF Visited

\* To look at one more entry keeps what a breadth-first search has.
LEMMA NextVisited ==
    ASSUME NEW V, NEW adj, NEW root, NEW W, AreWalks(V, adj, root, W),
           NEW maxDepth, IsLimit(maxDepth), NEW k \in Nat \ {0},
           NEW f, Visited(V, adj, root, W, maxDepth, k - 1, f), k <= Len(f),
           Within(f[k].depth, maxDepth),
           NEW g, IsExtension(V, f, adj[f[k].id], f[k].id, f[k].depth + 1, g)
    PROVE  Visited(V, adj, root, W, maxDepth, k, g)
<1> DEFINE x == f[k].id
           d == f[k].depth
           M == Len(f)
           N == Len(g)
<1>1. /\ M \in Nat /\ \A i \in 1 .. M : f[i] \in FoundIn(V)
      /\ FoundIds(f) = {f[i].id : i \in 1 .. M}
  BY FoundOf DEF Visited, AreFound
<1>2. /\ N \in Nat /\ \A i \in 1 .. N : g[i] \in FoundIn(V)
      /\ FoundIds(g) = {g[i].id : i \in 1 .. N} /\ g \in Seq(FoundIn(V)) /\ DistinctIds(g)
  BY FoundOf DEF IsExtension
<1>3. k \in 1 .. M /\ x \in V /\ d \in Nat \ {0} /\ x \in FoundIds(f)
  BY <1>1 DEF FoundIn
<1>4. /\ M <= N /\ \A i \in 1 .. M : g[i] = f[i]
      /\ \A i \in M + 1 .. N : g[i].depth = d + 1 /\ g[i].parent = x /\ g[i].id \in adj[x] /\ g[i].id \notin FoundIds(f)
      /\ FoundIds(g) = FoundIds(f) \cup adj[x]
  BY DEF IsExtension
<1>5. \A i \in 1 .. M : f[i].depth \in Nat \ {0} /\ f[i].id \in V /\ IsFarAs(W, f[i])
  BY <1>1 DEF FoundIn, Visited, AreFound
<1>6. \A i, j \in 1 .. M : i <= j => f[i].depth <= f[j].depth
  BY DEF Visited, InOrderOfDepth
<1>7. \A i \in 1 .. M : f[i].depth <= d + 1
  <2>1. CASE k = 1
    <3>1. k - 1 = 0 /\ k - 1 <= M
      BY <1>1, <2>1
    <3>2. \A j \in 1 .. M : f[j].depth <= 0 + 1
      BY <3>1 DEF Visited, Frontier, DepthAt
    <3> QED  BY <1>3, <1>5, <3>2
  <2>2. CASE k # 1
    <3>1. k - 1 # 0 /\ k - 1 <= M /\ k - 1 \in 1 .. M
      BY <1>1, <1>3, <2>2
    <3>2. \A j \in 1 .. M : f[j].depth <= f[k - 1].depth + 1
      BY <3>1 DEF Visited, Frontier, DepthAt
    <3>3. f[k - 1].depth <= d
      BY <1>3, <1>6, <3>1
    <3> QED  BY <1>3, <1>5, <3>1, <3>2, <3>3
  <2> QED  BY <2>1, <2>2
<1>8. W[d] \subseteq FoundIds(f)
  <2>1. ASSUME NEW i \in 1 .. M, f[i].depth < d PROVE adj[f[i].id] \subseteq FoundIds(f)
    <3>1. i <= k - 1
      BY <1>3, <1>5, <1>6, <2>1
    <3>2. Within(f[i].depth, maxDepth)
      BY <1>3, <1>5, <2>1 DEF Within, IsLimit, Unlimited
    <3> QED  BY <3>1, <3>2 DEF Visited, Expanded
  <2>2. d \in Nat /\ AreFound(V, W, f) /\ adj[root] \subseteq FoundIds(f)
    BY <1>3 DEF Visited
  <2> HIDE DEF d
  <2> QED  BY <2>1, <2>2, NearIsFound
<1>9. adj[x] \subseteq W[d + 1]
  <2>1. x \in W[d]
    BY <1>3, <1>5 DEF IsFarAs
  <2>2. W[d + 1] = W[d] \cup UNION {adj[y] : y \in W[d] \cup {root}}
    BY <1>3 DEF AreWalks
  <2> QED  BY <2>1, <2>2
<1> HIDE DEF x, d, M, N
<1>10. \A i \in 1 .. N : i \in 1 .. M \/ i \in M + 1 .. N
  BY <1>1, <1>2
<1>11. \A i \in 1 .. N : IsFarAs(W, g[i])
  <2>1. ASSUME NEW i \in M + 1 .. N PROVE IsFarAs(W, g[i])
    <3>1. g[i].id \in W[d + 1] /\ g[i].id \notin W[d] /\ g[i].depth = d + 1 /\ (d + 1) - 1 = d
      BY <1>3, <1>4, <1>8, <1>9
    <3> QED  BY <3>1 DEF IsFarAs
  <2> QED  BY <1>4, <1>5, <1>10, <2>1
<1>12. AreFound(V, W, g)
  BY <1>2, <1>11 DEF AreFound, N
<1>13. adj[root] \subseteq FoundIds(g)
  BY <1>4 DEF Visited
<1>14. Expanded(adj, maxDepth, k, g)
  <2> SUFFICES ASSUME NEW i \in 1 .. N, i <= k, Within(g[i].depth, maxDepth)
               PROVE  adj[g[i].id] \subseteq FoundIds(g)
    BY DEF Expanded, N
  <2>1. i \in 1 .. M /\ g[i] = f[i]
    <3>1. i \in 1 .. M
      BY <1>1, <1>2, <1>3
    <3> QED  BY <1>4, <3>1
  <2>2. CASE i = k
    BY <1>4, <2>1, <2>2 DEF x
  <2>3. CASE i # k
    <3>1. i <= k - 1
      BY <2>3
    <3> QED  BY <1>4, <2>1, <3>1 DEF Visited, Expanded, M
  <2> QED  BY <2>2, <2>3
<1>15. \A i \in 1 .. N : g[i].depth \in Nat \ {0} /\ g[i].depth <= d + 1
  BY <1>3, <1>4, <1>5, <1>7, <1>10
<1>16. InOrderOfDepth(g)
  <2> SUFFICES ASSUME NEW i \in 1 .. N, NEW j \in 1 .. N, i <= j PROVE g[i].depth <= g[j].depth
    BY DEF InOrderOfDepth, N
  <2>1. CASE j \in 1 .. M
    <3>1. i \in 1 .. M
      BY <1>1, <2>1
    <3> QED  BY <1>4, <1>6, <2>1, <3>1
  <2>2. CASE j \in M + 1 .. N
    BY <1>4, <1>15, <2>2
  <2> QED  BY <1>10, <2>1, <2>2
<1>17. Frontier(k, g)
  <2>1. DepthAt(g, k) = d
    BY <1>3, <1>4 DEF DepthAt, d
  <2> QED  BY <1>15, <2>1 DEF Frontier, N
<1>18. AreBounded(maxDepth, g)
  <2>1. \A i \in 1 .. M : f[i].depth <= i /\ Within(f[i].depth - 1, maxDepth)
    BY DEF Visited, AreBounded, M
  <2>2. ASSUME NEW i \in M + 1 .. N PROVE g[i].depth <= i /\ Within(g[i].depth - 1, maxDepth)
    <3>1. g[i].depth = d + 1 /\ (d + 1) - 1 = d /\ Within(d, maxDepth)
      BY <1>3, <1>4 DEF d
    <3>2. d <= k /\ k <= M
      BY <1>3, <2>1 DEF d
    <3> QED  BY <1>1, <1>3, <3>1, <3>2
  <2> QED  BY <1>4, <1>10, <2>1, <2>2 DEF AreBounded, N
<1>19. AreParented(adj, root, g)
  <2> SUFFICES ASSUME NEW i \in 1 .. N
               PROVE  /\ g[i].id \in adj[g[i].parent]
                      /\ \/ g[i].depth = 1 /\ g[i].parent = root
                         \/ \E j \in 1 .. N : g[j].id = g[i].parent /\ g[j].depth = g[i].depth - 1
    BY DEF AreParented, N
  <2>1. CASE i \in 1 .. M
    <3>1. /\ f[i].id \in adj[f[i].parent]
          /\ \/ f[i].depth = 1 /\ f[i].parent = root
             \/ \E j \in 1 .. M : f[j].id = f[i].parent /\ f[j].depth = f[i].depth - 1
      BY <2>1 DEF Visited, AreParented, M
    <3>2. \A j \in 1 .. M : j \in 1 .. N /\ g[j] = f[j]
      BY <1>1, <1>2, <1>4
    <3> QED  BY <2>1, <3>1, <3>2
  <2>2. CASE i \in M + 1 .. N
    <3>1. k \in 1 .. N /\ g[k].id = x /\ g[k].depth = d
      BY <1>1, <1>2, <1>3, <1>4 DEF x, d
    <3>2. g[i].depth - 1 = d
      BY <1>3, <1>4, <2>2
    <3> QED  BY <1>4, <2>2, <3>1, <3>2
  <2> QED  BY <1>10, <2>1, <2>2
<1> QED  BY <1>12, <1>13, <1>14, <1>16, <1>17, <1>18, <1>19 DEF Visited

\* A search that has no entry left to look at found what walks lead to.
LEMMA AllVisited ==
    ASSUME NEW V, NEW adj, NEW root, NEW W, AreWalks(V, adj, root, W),
           NEW maxDepth, IsLimit(maxDepth), NEW k \in Nat,
           NEW f, Visited(V, adj, root, W, maxDepth, k, f), Len(f) <= k
    PROVE  FoundIds(f) = W[IF Within(k, maxDepth) THEN k ELSE maxDepth]
<1> DEFINE p == IF Within(k, maxDepth) THEN k ELSE maxDepth
<1>1. p \in Nat
  BY DEF Within, IsLimit, Unlimited
<1>2. /\ Len(f) \in Nat /\ \A i \in 1 .. Len(f) : f[i] \in FoundIn(V)
      /\ FoundIds(f) = {f[i].id : i \in 1 .. Len(f)}
  BY FoundOf DEF Visited, AreFound
<1>3. \A i \in 1 .. Len(f) : /\ f[i].depth \in Nat \ {0} /\ f[i].id \in W[f[i].depth]
                             /\ f[i].depth <= k /\ Within(f[i].depth - 1, maxDepth)
  <2>1. \A i \in 1 .. Len(f) : f[i].depth \in Nat \ {0} /\ f[i].id \in W[f[i].depth]
    BY <1>2 DEF FoundIn, Visited, AreFound, IsFarAs
  <2>2. \A i \in 1 .. Len(f) : f[i].depth <= i /\ i <= k /\ Within(f[i].depth - 1, maxDepth)
    BY <1>2 DEF Visited, AreBounded
  <2> QED  BY <1>2, <2>1, <2>2
<1>4. ASSUME NEW i \in 1 .. Len(f) PROVE f[i].depth <= p
  BY <1>3 DEF Within, IsLimit, Unlimited
<1>5. ASSUME NEW i \in 1 .. Len(f), f[i].depth < p PROVE adj[f[i].id] \subseteq FoundIds(f)
  <2>1. Within(f[i].depth, maxDepth) /\ i <= k
    BY <1>2, <1>3, <1>5 DEF Within, IsLimit, Unlimited
  <2> QED  BY <2>1 DEF Visited, Expanded
<1> HIDE DEF p
<1>6. W[p] \subseteq FoundIds(f)
  BY <1>1, <1>5, NearIsFound DEF Visited
<1>7. ASSUME NEW i \in 1 .. Len(f) PROVE f[i].id \in W[p]
  <2>1. W[f[i].depth] \subseteq W[p]
    BY <1>1, <1>3, <1>4, WalksGrow
  <2> QED  BY <1>3, <2>1
<1>8. FoundIds(f) = W[p]
  BY <1>2, <1>6, <1>7
<1> QED  BY <1>8 DEF p

-----------------------------------------------------------------------------
(* What walks lead to, and the traversals that find it. *)
OneFurther(graph, direction, id, before) == before \cup Steps(graph, direction, before \cup {id})

\* A walk is one edge longer than another.
LEMMA ReachedUnfolds ==
    ASSUME NEW graph, NEW direction, NEW id, NEW most, most \in Nat
    PROVE  \E g : /\ g[0] = {} /\ Reached(graph, direction, id, most) = g[most]
                  /\ \A n \in 1 .. most : g[n] = OneFurther(graph, direction, id, g[n - 1])
<1> DEFINE N == most
           zero == {}
           F(q, n) == OneFurther(graph, direction, id, q)
           Defines(f, m) == f = [n \in 0 .. m |-> IF n = 0 THEN zero ELSE F(f[n - 1], n)]
           done == {m \in 0 .. N : \E f : Defines(f, m)}
<1>1. N \in Nat
  OBVIOUS
<1>2. Reached(graph, direction, id, most) = (CHOOSE f : Defines(f, N))[N]
  BY DEF Reached, OneFurther
<1> HIDE DEF F, N, zero
<1>3. 0 \in done
  <2> DEFINE f == [n \in 0 .. 0 |-> zero]
  <2>1. Defines(f, 0)
    OBVIOUS
  <2> HIDE DEF Defines, f
  <2> QED  BY <1>1, <2>1
<1>4. ASSUME NEW m \in 1 .. N, m - 1 \in done PROVE m \in done
  <2>1. PICK f : Defines(f, m - 1)
    BY <1>4
  <2>2. \A k \in 0 .. m - 1 : f[k] = IF k = 0 THEN zero ELSE F(f[k - 1], k)
    BY <2>1, Zenon
  <2> DEFINE g == [k \in 0 .. m |-> IF k = m THEN F(f[m - 1], m) ELSE f[k]]
  <2>3. g[m] = F(f[m - 1], m) /\ \A k \in 0 .. m - 1 : g[k] = f[k]
    BY <1>1
  <2>4. g = [k \in 0 .. m |-> g[k]]
    OBVIOUS
  <2> HIDE DEF g, Defines
  <2>5. \A k \in 0 .. m : g[k] = IF k = 0 THEN zero ELSE F(g[k - 1], k)
    <3> TAKE k \in 0 .. m
    <3>1. CASE k = m
      <4>1. m # 0 /\ m - 1 \in 0 .. m - 1
        OBVIOUS
      <4> QED  BY <2>3, <3>1, <4>1
    <3>2. CASE k # m
      <4>1. k \in 0 .. m - 1 /\ (k # 0 => k - 1 \in 0 .. m - 1)
        BY <3>2
      <4> QED  BY <2>2, <2>3, <4>1
    <3> QED  BY <3>1, <3>2
  <2>6. Defines(g, m)
    BY <2>4, <2>5 DEF Defines
  <2>7. m \in 0 .. N
    BY <1>1
  <2> QED  BY <2>6, <2>7
<1> HIDE DEF done
<1>5. 0 .. N \subseteq done
  BY <1>1, <1>3, <1>4, BoundedInduction
<1>6. N \in done
  BY <1>1, <1>5
<1> DEFINE g == CHOOSE f : Defines(f, N)
<1>7. Defines(g, N)
  <2> HIDE DEF Defines
  <2> QED  BY <1>6 DEF done
<1> HIDE DEF g
<1>8. \A n \in 0 .. N : g[n] = IF n = 0 THEN zero ELSE F(g[n - 1], n)
  BY <1>7, Zenon
<1>9. g[0] = zero /\ \A n \in 1 .. N : g[n] = F(g[n - 1], n)
  <2>1. 0 \in 0 .. N /\ \A n \in 1 .. N : n \in 0 .. N /\ n # 0
    BY <1>1
  <2> QED  BY <1>8, <2>1
<1>10. Reached(graph, direction, id, most) = g[N]
  BY <1>2 DEF g
<1> QED  BY <1>9, <1>10 DEF N, F, zero

\* What a walk of one more edge leads to.
LEMMA ReachedGrows ==
    ASSUME NEW graph, NEW direction, NEW id
    PROVE  /\ Reached(graph, direction, id, 0) = {}
           /\ \A n \in Nat : Reached(graph, direction, id, n + 1)
                                 = OneFurther(graph, direction, id, Reached(graph, direction, id, n))
<1>0. \A m \in Nat : \E g : /\ g[0] = {} /\ Reached(graph, direction, id, m) = g[m]
                           /\ \A k \in 1 .. m : g[k] = OneFurther(graph, direction, id, g[k - 1])
  <2> TAKE m \in Nat
  <2>1. PICK r : r = Reached(graph, direction, id, m)
    OBVIOUS
  <2> QED  BY <2>1, ReachedUnfolds
<1>1. Reached(graph, direction, id, 0) = {}
  <2>1. \E g : g[0] = {} /\ Reached(graph, direction, id, 0) = g[0]
    <3>1. PICK m : m = 0 /\ m \in Nat
      OBVIOUS
    <3>2. \E g : g[0] = {} /\ Reached(graph, direction, id, m) = g[m]
      BY <1>0, <3>1
    <3> QED  BY <3>1, <3>2
  <2> QED  BY <2>1
<1>2. ASSUME NEW n \in Nat
      PROVE  Reached(graph, direction, id, n + 1)
                 = OneFurther(graph, direction, id, Reached(graph, direction, id, n))
  <2>1. PICK g : /\ g[0] = {} /\ Reached(graph, direction, id, n) = g[n]
                 /\ \A k \in 1 .. n : g[k] = OneFurther(graph, direction, id, g[k - 1])
    BY <1>0
  <2>2. PICK h : /\ h[0] = {} /\ Reached(graph, direction, id, n + 1) = h[n + 1]
                 /\ \A k \in 1 .. n + 1 : h[k] = OneFurther(graph, direction, id, h[k - 1])
    <3>1. PICK m : m = n + 1 /\ m \in Nat
      OBVIOUS
    <3>2. \E h : /\ h[0] = {} /\ Reached(graph, direction, id, m) = h[m]
                 /\ \A k \in 1 .. m : h[k] = OneFurther(graph, direction, id, h[k - 1])
      BY <1>0, <3>1
    <3> QED  BY <3>1, <3>2
  <2> DEFINE same == {k \in 0 .. n : g[k] = h[k]}
  <2>3. 0 \in same
    BY <2>1, <2>2
  <2>4. ASSUME NEW k \in 1 .. n, k - 1 \in same PROVE k \in same
    <3>1. k \in 1 .. n + 1 /\ k \in 0 .. n /\ g[k - 1] = h[k - 1]
      BY <2>4
    <3>2. g[k] = OneFurther(graph, direction, id, g[k - 1])
      BY <2>1
    <3>3. h[k] = OneFurther(graph, direction, id, h[k - 1])
      BY <2>2, <3>1
    <3> QED  BY <3>1, <3>2, <3>3
  <2> HIDE DEF same
  <2>5. 0 .. n \subseteq same /\ n \in 0 .. n
    BY <2>3, <2>4, BoundedInduction
  <2>6. g[n] = h[n]
    BY <2>5 DEF same
  <2>7. h[n + 1] = OneFurther(graph, direction, id, h[n])
    <3>1. n + 1 \in 1 .. n + 1 /\ (n + 1) - 1 = n
      OBVIOUS
    <3> QED  BY <2>2, <3>1
  <2> QED  BY <2>1, <2>2, <2>6, <2>7
<1> QED  BY <1>1, <1>2

\* The ids an edge away, and those that a walk leads to.
NextTo(graph, direction) == [x \in NodeIds(graph) |-> Steps(graph, direction, {x})]
WalksFrom(graph, direction, root) == [n \in Nat |-> Reached(graph, direction, root, n)]

\* Edges lead to nodes.
LEMMA StepsAreNodes ==
    ASSUME NEW graph, IsGraph(graph), NEW direction, NEW ids
    PROVE  /\ Steps(graph, direction, ids) \subseteq NodeIds(graph)
           /\ Steps(graph, direction, ids) = UNION {Steps(graph, direction, {x}) : x \in ids}
           /\ Steps(graph, direction, ids) = Steps(graph, direction, ids \cap NodeIds(graph))
<1>1. \A i \in DOMAIN graph.edges : /\ graph.edges[i].from \in NodeIds(graph)
                                    /\ graph.edges[i].to \in NodeIds(graph)
  BY DEF IsGraph, ToSet
<1>2. /\ \A S : Parents(graph, S) \subseteq NodeIds(graph) /\ Children(graph, S) \subseteq NodeIds(graph)
      /\ \A S : Parents(graph, S) = UNION {Parents(graph, {x}) : x \in S}
      /\ \A S : Children(graph, S) = UNION {Children(graph, {x}) : x \in S}
  <2>1. \A S : Parents(graph, S) \subseteq NodeIds(graph) /\ Children(graph, S) \subseteq NodeIds(graph)
    BY <1>1 DEF Parents, Children
  <2>2. \A S : Parents(graph, S) = UNION {Parents(graph, {x}) : x \in S}
    BY DEF Parents
  <2>3. \A S : Children(graph, S) = UNION {Children(graph, {x}) : x \in S}
    BY DEF Children
  <2> QED  BY <2>1, <2>2, <2>3
<1>3. /\ Parents(graph, ids) = Parents(graph, ids \cap NodeIds(graph))
      /\ Children(graph, ids) = Children(graph, ids \cap NodeIds(graph))
  <2>1. Parents(graph, ids) = Parents(graph, ids \cap NodeIds(graph))
    BY <1>1 DEF Parents
  <2>2. Children(graph, ids) = Children(graph, ids \cap NodeIds(graph))
    BY <1>1 DEF Children
  <2> QED  BY <2>1, <2>2
<1>4. CASE direction = "upstream"
  <2>1. \A S : Steps(graph, direction, S) = Parents(graph, S)
    BY <1>4 DEF Steps
  <2>2. {Steps(graph, direction, {x}) : x \in ids} = {Parents(graph, {x}) : x \in ids}
    BY <2>1
  <2> QED  BY <1>2, <1>3, <2>1, <2>2
<1>5. CASE direction # "upstream"
  <2>1. \A S : Steps(graph, direction, S) = Children(graph, S)
    BY <1>5 DEF Steps
  <2>2. {Steps(graph, direction, {x}) : x \in ids} = {Children(graph, {x}) : x \in ids}
    BY <2>1
  <2> QED  BY <1>2, <1>3, <2>1, <2>2
<1> QED  BY <1>4, <1>5

\* The edges of a graph and what is reached on them are walks.
LEMMA GraphHasWalks ==
    ASSUME NEW graph, IsGraph(graph), NEW direction, NEW root, HasNode(graph, root)
    PROVE  AreWalks(NodeIds(graph), NextTo(graph, direction), root, WalksFrom(graph, direction, root))
<1> DEFINE V == NodeIds(graph)
           adj == NextTo(graph, direction)
           W == WalksFrom(graph, direction, root)
<1>1. root \in V
  BY HasNodeId
<1>2. adj \in [V -> SUBSET V] /\ \A x \in V : adj[x] = Steps(graph, direction, {x})
  BY StepsAreNodes DEF NextTo
<1>3. W[0] = {} /\ \A n \in Nat : W[n + 1] = W[n] \cup Steps(graph, direction, W[n] \cup {root})
  BY ReachedGrows DEF WalksFrom, OneFurther
<1>4. W = [n \in Nat |-> W[n]]
  BY DEF WalksFrom
<1> HIDE DEF V, adj, W
<1> DEFINE good == {n \in Nat : W[n] \subseteq V}
<1>5. 0 \in good
  BY <1>3
<1>6. ASSUME NEW n \in Nat, n \in good PROVE n + 1 \in good
  <2>1. Steps(graph, direction, W[n] \cup {root}) \subseteq V
    BY StepsAreNodes DEF V
  <2> QED  BY <1>3, <1>6, <2>1
<1> HIDE DEF good
<1>7. Nat \subseteq good
  BY <1>5, <1>6, SetInduction
<1>8. \A n \in Nat : W[n] \subseteq V
  BY <1>7 DEF good
<1>9. ASSUME NEW n \in Nat PROVE W[n + 1] = W[n] \cup UNION {adj[x] : x \in W[n] \cup {root}}
  <2>1. Steps(graph, direction, W[n] \cup {root})
            = UNION {Steps(graph, direction, {x}) : x \in W[n] \cup {root}}
    BY StepsAreNodes
  <2>2. \A x \in W[n] \cup {root} : adj[x] = Steps(graph, direction, {x})
    BY <1>1, <1>2, <1>8
  <2>3. {adj[x] : x \in W[n] \cup {root}} = {Steps(graph, direction, {x}) : x \in W[n] \cup {root}}
    BY <2>2
  <2> QED  BY <1>3, <2>1, <2>3
<1>10. W \in [Nat -> SUBSET V]
  BY <1>4, <1>8
<1>11. AreWalks(V, adj, root, W)
  BY <1>1, <1>2, <1>3, <1>9, <1>10 DEF AreWalks
<1> QED  BY <1>11 DEF V, adj, W

\* The ids of a list of distinct ones are as many.
LEMMA IdsAreFinite ==
    ASSUME NEW q, IsSequence(q), DistinctIds(q)
    PROVE  /\ IsFiniteSet(FoundIds(q)) /\ Len(q) \in Nat /\ Cardinality(FoundIds(q)) = Len(q)
<1>1. PICK N \in Nat : N = Len(q) /\ DOMAIN q = 1 .. N
  BY OwnMembers DEF IsSequence
<1> DEFINE c == [i \in 1 .. N |-> q[i].id]
           S == {q[i].id : i \in 1 .. N}
<1>2. c \in Seq(S) /\ Len(c) = N /\ ToSet(c) = S
  BY DEF ToSet
<1>3. \A i, j \in 1 .. N : c[i] = c[j] => i = j
  BY <1>1 DEF DistinctIds
<1>4. FoundIds(q) = S
  BY <1>1 DEF FoundIds
<1> HIDE DEF c, S
<1>5. IsFiniteSet(S) /\ Cardinality(S) = N
  BY <1>2, <1>3, DistinctCount
<1> QED  BY <1>1, <1>4, <1>5

\* What was found is no more than there are nodes.
LEMMA FoundAreNodes ==
    ASSUME NEW graph, IsGraph(graph), NEW f, IsSequence(f), DistinctIds(f),
           FoundIds(f) \subseteq NodeIds(graph)
    PROVE  /\ Len(f) <= Len(graph.nodes) /\ IsFiniteSet(NodeIds(graph))
           /\ Cardinality(NodeIds(graph)) = Len(graph.nodes)
           /\ Cardinality(FoundIds(f)) = Len(f)
<1>1. \A q : IsSequence(q) /\ DistinctIds(q) => /\ IsFiniteSet(FoundIds(q)) /\ Len(q) \in Nat
                                                /\ Cardinality(FoundIds(q)) = Len(q)
  BY IdsAreFinite
<1>2. IsSequence(graph.nodes) /\ DistinctIds(graph.nodes) /\ NodeIds(graph) = FoundIds(graph.nodes)
  BY DEF IsGraph, NodeIds
<1>3. Cardinality(FoundIds(f)) <= Cardinality(NodeIds(graph))
  BY <1>1, <1>2, FS_Subset
<1> QED  BY <1>1, <1>2, <1>3

\* Entries are looked at one at a time.
LEMMA TraverseUnfolds ==
    ASSUME NEW graph, NEW root, HasNode(graph, root), NEW maxDepth, NEW direction,
           Len(graph.nodes) \in Nat
    PROVE  \E g : /\ g[0] = EnqueueNeighbors(<<>>, Neighbors(graph, root, direction), root, 1)
                  /\ Traverse(graph, root, maxDepth, direction) = g[Len(graph.nodes)]
                  /\ \A n \in 1 .. Len(graph.nodes) : g[n] = TakeNext(graph, g[n - 1], n, maxDepth, direction)
<1> DEFINE N == Len(graph.nodes)
           zero == EnqueueNeighbors(<<>>, Neighbors(graph, root, direction), root, 1)
           F(q, n) == TakeNext(graph, q, n, maxDepth, direction)
           Defines(f, m) == f = [n \in 0 .. m |-> IF n = 0 THEN zero ELSE F(f[n - 1], n)]
           done == {m \in 0 .. N : \E f : Defines(f, m)}
<1>1. N \in Nat
  OBVIOUS
<1>2. Traverse(graph, root, maxDepth, direction) = (CHOOSE f : Defines(f, N))[N]
  BY DEF Traverse
<1> HIDE DEF F, N, zero
<1>3. 0 \in done
  <2> DEFINE f == [n \in 0 .. 0 |-> zero]
  <2>1. Defines(f, 0)
    OBVIOUS
  <2> HIDE DEF Defines, f
  <2> QED  BY <1>1, <2>1
<1>4. ASSUME NEW m \in 1 .. N, m - 1 \in done PROVE m \in done
  <2>1. PICK f : Defines(f, m - 1)
    BY <1>4
  <2>2. \A k \in 0 .. m - 1 : f[k] = IF k = 0 THEN zero ELSE F(f[k - 1], k)
    BY <2>1, Zenon
  <2> DEFINE g == [k \in 0 .. m |-> IF k = m THEN F(f[m - 1], m) ELSE f[k]]
  <2>3. g[m] = F(f[m - 1], m) /\ \A k \in 0 .. m - 1 : g[k] = f[k]
    BY <1>1
  <2>4. g = [k \in 0 .. m |-> g[k]]
    OBVIOUS
  <2> HIDE DEF g, Defines
  <2>5. \A k \in 0 .. m : g[k] = IF k = 0 THEN zero ELSE F(g[k - 1], k)
    <3> TAKE k \in 0 .. m
    <3>1. CASE k = m
      <4>1. m # 0 /\ m - 1 \in 0 .. m - 1
        OBVIOUS
      <4> QED  BY <2>3, <3>1, <4>1
    <3>2. CASE k # m
      <4>1. k \in 0 .. m - 1 /\ (k # 0 => k - 1 \in 0 .. m - 1)
        BY <3>2
      <4> QED  BY <2>2, <2>3, <4>1
    <3> QED  BY <3>1, <3>2
  <2>6. Defines(g, m)
    BY <2>4, <2>5 DEF Defines
  <2>7. m \in 0 .. N
    BY <1>1
  <2> QED  BY <2>6, <2>7
<1> HIDE DEF done
<1>5. 0 .. N \subseteq done
  BY <1>1, <1>3, <1>4, BoundedInduction
<1>6. N \in done
  BY <1>1, <1>5
<1> DEFINE g == CHOOSE f : Defines(f, N)
<1>7. Defines(g, N)
  <2> HIDE DEF Defines
  <2> QED  BY <1>6 DEF done
<1> HIDE DEF g
<1>8. \A n \in 0 .. N : g[n] = IF n = 0 THEN zero ELSE F(g[n - 1], n)
  BY <1>7, Zenon
<1>9. g[0] = zero /\ \A n \in 1 .. N : g[n] = F(g[n - 1], n)
  <2>1. 0 \in 0 .. N /\ \A n \in 1 .. N : n \in 0 .. N /\ n # 0
    BY <1>1
  <2> QED  BY <1>8, <2>1
<1>10. Traverse(graph, root, maxDepth, direction) = g[N]
  BY <1>2 DEF g
<1> QED  BY <1>9, <1>10 DEF N, F, zero

\* Nothing is found by looking beyond the end, or at what is too far.
LEMMA SameVisited ==
    ASSUME NEW V, NEW adj, NEW root, NEW W, AreWalks(V, adj, root, W),
           NEW maxDepth, IsLimit(maxDepth), NEW k \in Nat \ {0},
           NEW f, Visited(V, adj, root, W, maxDepth, k - 1, f),
           k > Len(f) \/ ~Within(f[k].depth, maxDepth)
    PROVE  Visited(V, adj, root, W, maxDepth, k, f)
<1> DEFINE M == Len(f)
<1>1. M \in Nat /\ \A i \in 1 .. M : f[i].depth \in Nat \ {0}
  <2>1. M \in Nat /\ \A i \in 1 .. M : f[i] \in FoundIn(V)
    BY FoundOf DEF Visited, AreFound
  <2> QED  BY <2>1 DEF FoundIn
<1> HIDE DEF M
<1>2. Expanded(adj, maxDepth, k, f)
  <2> SUFFICES ASSUME NEW i \in 1 .. M, i <= k, Within(f[i].depth, maxDepth)
               PROVE  adj[f[i].id] \subseteq FoundIds(f)
    BY DEF Expanded, M
  <2>1. i <= k - 1
    BY <1>1 DEF M
  <2> QED  BY <2>1 DEF Visited, Expanded, M
<1>3. Frontier(k, f)
  <2> SUFFICES ASSUME k <= M PROVE \A j \in 1 .. M : f[j].depth <= f[k].depth + 1
    BY DEF Frontier, DepthAt, M
  <2>1. k \in 1 .. M /\ k - 1 <= M
    BY <1>1
  <2>2. \A j \in 1 .. M : f[j].depth <= DepthAt(f, k - 1) + 1
    BY <2>1 DEF Visited, Frontier, M
  <2>3. CASE k = 1
    <3>1. DepthAt(f, k - 1) = 0
      BY <2>3 DEF DepthAt
    <3> QED  BY <1>1, <2>1, <2>2, <3>1
  <2>4. CASE k # 1
    <3>1. k - 1 \in 1 .. M /\ DepthAt(f, k - 1) = f[k - 1].depth
      BY <1>1, <2>1, <2>4 DEF DepthAt
    <3>2. f[k - 1].depth <= f[k].depth
      BY <2>1, <3>1 DEF Visited, InOrderOfDepth, M
    <3> QED  BY <1>1, <2>1, <2>2, <3>1, <3>2
  <2> QED  BY <2>3, <2>4
<1> QED  BY <1>2, <1>3 DEF Visited

\* What is appended for an entry are its neighbours on a side.
LEMMA EnqueuedAre ==
    ASSUME NEW graph, IsGraph(graph), NEW direction, NEW f \in Seq(FoundIn(NodeIds(graph))),
           DistinctIds(f), NEW x \in NodeIds(graph), NEW depth \in Nat \ {0}
    PROVE  IsExtension(NodeIds(graph), f, NextTo(graph, direction)[x], x, depth,
                       EnqueueNeighbors(f, Neighbors(graph, x, direction), x, depth))
<1> DEFINE ids == Neighbors(graph, x, direction)
<1>1. IsSequence(ids) /\ ToSet(ids) = NextTo(graph, direction)[x]
  BY NeighborsAreLists DEF Neighbors, NextTo, Steps
<1>2. NextTo(graph, direction)[x] \subseteq NodeIds(graph)
  BY StepsAreNodes DEF NextTo
<1> HIDE DEF ids
<1>3. IsExtension(NodeIds(graph), f, ToSet(ids), x, depth, EnqueueNeighbors(f, ids, x, depth))
  BY <1>1, <1>2, EnqueueExtends
<1> QED  BY <1>1, <1>3 DEF ids

\* A traversal visits whatever there is, as there are no more places than nodes.
LEMMA TraverseVisits ==
    ASSUME NEW graph, IsGraph(graph), NEW direction, NEW root, HasNode(graph, root),
           NEW maxDepth, IsLimit(maxDepth)
    PROVE  Visited(NodeIds(graph), NextTo(graph, direction), root, WalksFrom(graph, direction, root),
                   maxDepth, Len(graph.nodes), Traverse(graph, root, maxDepth, direction))
<1> DEFINE V == NodeIds(graph)
           adj == NextTo(graph, direction)
           W == WalksFrom(graph, direction, root)
<1>1. AreWalks(V, adj, root, W)
  BY GraphHasWalks
<1>2. PICK N \in Nat : N = Len(graph.nodes)
  BY OwnMembers DEF IsGraph, IsSequence
<1>3. PICK g : /\ g[0] = EnqueueNeighbors(<<>>, Neighbors(graph, root, direction), root, 1)
               /\ Traverse(graph, root, maxDepth, direction) = g[N]
               /\ \A n \in 1 .. N : g[n] = TakeNext(graph, g[n - 1], n, maxDepth, direction)
  BY <1>2, TraverseUnfolds
<1>4. root \in V
  BY HasNodeId
<1>5. Visited(V, adj, root, W, maxDepth, 0, g[0])
  <2>1. <<>> \in Seq(FoundIn(V)) /\ DistinctIds(<<>>)
    BY DEF DistinctIds
  <2>2. PICK h : h = g[0]
    OBVIOUS
  <2>3. IsExtension(V, <<>>, adj[root], root, 1, h)
    <3>1. IsExtension(V, <<>>, adj[root], root, 1,
                      EnqueueNeighbors(<<>>, Neighbors(graph, root, direction), root, 1))
      <4>1. 1 \in Nat \ {0}
        OBVIOUS
      <4> QED  BY ONLY <1>4, <2>1, <4>1, EnqueuedAre, IsGraph(graph)
    <3> QED  BY <1>3, <2>2, <3>1
  <2> HIDE DEF V, adj, W
  <2>4. Visited(V, adj, root, W, maxDepth, 0, h)
    BY <1>1, <2>3, FirstVisited
  <2> QED  BY <2>2, <2>4
<1>6. ASSUME NEW k \in 1 .. N, NEW f, f = g[k - 1], Visited(V, adj, root, W, maxDepth, k - 1, f)
      PROVE  Visited(V, adj, root, W, maxDepth, k, g[k])
  <2>1. g[k] = TakeNext(graph, f, k, maxDepth, direction) /\ k \in Nat \ {0}
    BY <1>3, <1>6
  <2>2. /\ f \in Seq(FoundIn(V)) /\ DistinctIds(f) /\ Len(f) \in Nat
        /\ \A i \in 1 .. Len(f) : f[i] \in FoundIn(V)
    BY <1>6, FoundOf DEF Visited, AreFound
  <2>3. CASE k > Len(f) \/ ~Within(f[k].depth, maxDepth)
    <3>1. g[k] = f
      BY <2>1, <2>3 DEF TakeNext
    <3> HIDE DEF V, adj, W
    <3>2. Visited(V, adj, root, W, maxDepth, k, f)
      BY <1>1, <1>6, <2>1, <2>3, SameVisited
    <3> QED  BY <3>1, <3>2
  <2>4. CASE k <= Len(f) /\ Within(f[k].depth, maxDepth)
    <3>1. PICK x, d : x = f[k].id /\ d = f[k].depth + 1
      OBVIOUS
    <3>2. x \in V /\ d \in Nat \ {0}
      <4>1. f[k] \in FoundIn(V)
        BY <2>2, <2>4
      <4> QED  BY <3>1, <4>1 DEF FoundIn
    <3>3. g[k] = EnqueueNeighbors(f, Neighbors(graph, x, direction), x, d)
      BY <2>1, <2>2, <2>4, <3>1 DEF TakeNext
    <3>4. PICK h : h = g[k]
      OBVIOUS
    <3>5. IsExtension(V, f, adj[x], x, d, h)
      BY <2>2, <3>2, <3>3, <3>4, EnqueuedAre
    <3>6. IsExtension(V, f, adj[f[k].id], f[k].id, f[k].depth + 1, h)
      BY <3>1, <3>5
    <3> HIDE DEF V, adj, W
    <3>7. Visited(V, adj, root, W, maxDepth, k, h)
      BY <1>1, <1>6, <2>1, <2>4, <3>6, NextVisited
    <3> QED  BY <3>4, <3>7
  <2> QED  BY <2>2, <2>3, <2>4
<1> HIDE DEF V, adj, W
<1> DEFINE done == {k \in 0 .. N : Visited(V, adj, root, W, maxDepth, k, g[k])}
<1>7. 0 \in done
  BY <1>5
<1>8. ASSUME NEW k \in 1 .. N, k - 1 \in done PROVE k \in done
  <2>1. PICK f : f = g[k - 1]
    OBVIOUS
  <2>2. Visited(V, adj, root, W, maxDepth, k - 1, f)
    BY <1>8, <2>1
  <2>3. Visited(V, adj, root, W, maxDepth, k, g[k])
    BY <1>6, <2>1, <2>2
  <2>4. k \in 0 .. N
    OBVIOUS
  <2> QED  BY <2>3, <2>4
<1> HIDE DEF done
<1>9. 0 .. N \subseteq done /\ N \in 0 .. N
  BY <1>7, <1>8, BoundedInduction
<1>10. Visited(V, adj, root, W, maxDepth, N, g[N])
  BY <1>9 DEF done
<1> QED  BY <1>2, <1>3, <1>10 DEF V, adj, W

\* A traversal finds what a walk within the depth leads to, once, with its distance (graph.ts:210).
LEMMA TraverseReaches ==
    ASSUME NEW graph, IsGraph(graph), NEW direction, NEW root, HasNode(graph, root),
           NEW maxDepth, IsLimit(maxDepth), NEW f, f = Traverse(graph, root, maxDepth, direction)
    PROVE  /\ f \in Seq(FoundIn(NodeIds(graph))) /\ DistinctIds(f) /\ Len(f) <= Len(graph.nodes)
           /\ AreParented(NextTo(graph, direction), root, f) /\ AreBounded(maxDepth, f)
           /\ FoundIds(f) = Reached(graph, direction, root, Bounded(graph, maxDepth))
           /\ AreDistances(graph, root, direction, maxDepth, f)
<1> DEFINE V == NodeIds(graph)
           adj == NextTo(graph, direction)
           W == WalksFrom(graph, direction, root)
<1>1. PICK N \in Nat : N = Len(graph.nodes)
  BY OwnMembers DEF IsGraph, IsSequence
<1>2. Visited(V, adj, root, W, maxDepth, N, f)
  BY <1>1, TraverseVisits
<1>3. /\ f \in Seq(FoundIn(V)) /\ DistinctIds(f) /\ Len(f) \in Nat /\ DOMAIN f = 1 .. Len(f)
      /\ \A i \in 1 .. Len(f) : f[i] \in FoundIn(V)
      /\ FoundIds(f) = {f[i].id : i \in 1 .. Len(f)}
  BY <1>2, FoundOf DEF Visited, AreFound
<1>4. IsSequence(f)
  BY <1>3, OwnMembers
<1>5. Len(f) <= N
  <2>1. FoundIds(f) \subseteq V
    BY <1>3 DEF FoundIn
  <2> QED  BY <1>1, <1>3, <1>4, <2>1, FoundAreNodes
<1>6. AreWalks(V, adj, root, W)
  BY GraphHasWalks
<1> DEFINE p == IF Within(N, maxDepth) THEN N ELSE maxDepth
<1>7. FoundIds(f) = W[p]
  <2> HIDE DEF V, adj, W
  <2> QED  BY <1>2, <1>5, <1>6, AllVisited
<1>8. p \in Nat /\ p = Bounded(graph, maxDepth)
  BY <1>1 DEF Within, IsLimit, Unlimited, Bounded
<1>9. FoundIds(f) = Reached(graph, direction, root, Bounded(graph, maxDepth))
  BY <1>7, <1>8 DEF WalksFrom
<1>10. ASSUME NEW i \in DOMAIN f PROVE IsDistance(graph, direction, root, f[i])
  <2>1. f[i].depth \in Nat \ {0} /\ IsFarAs(W, f[i])
    BY <1>2, <1>3 DEF Visited, AreFound, FoundIn
  <2>2. f[i].depth > 1 => f[i].depth - 1 \in Nat
    BY <2>1
  <2> QED  BY <2>1, <2>2 DEF IsFarAs, IsDistance, WalksFrom
<1>11. NoneTwice(f)
  <2>1. \A i, j \in 1 .. Len(f) : f[i] = f[j] => i = j
    BY <1>3 DEF DistinctIds
  <2>2. Cardinality(ToSet(f)) = Len(f)
    BY <1>3, <2>1, DistinctCount
  <2> QED  BY <2>2 DEF NoneTwice
<1>12. AreDistances(graph, root, direction, maxDepth, f)
  BY <1>9, <1>10, <1>11 DEF AreDistances
<1>13. AreParented(adj, root, f) /\ AreBounded(maxDepth, f)
  BY <1>2 DEF Visited
<1> QED  BY <1>1, <1>3, <1>5, <1>9, <1>12, <1>13

-----------------------------------------------------------------------------
(* The columns that join a graph. *)
LEMMA NodeJoins ==
    ASSUME NEW graph, IsGraph(graph), NEW node, node.id \notin NodeIds(graph)
    PROVE  IsGraph(AddNode(graph, node)) /\ node.id \in NodeIds(AddNode(graph, node))
<1> DEFINE g == AddNode(graph, node)
           nodes == Append(graph.nodes, node)
<1>1. g = [nodes |-> nodes, edges |-> graph.edges, relations |-> graph.relations]
  <2>1. g = [graph EXCEPT !.nodes = nodes]
    BY DEF AddNode
  <2> HIDE DEF g, nodes
  <2> QED  BY <2>1 DEF IsGraph
<1> HIDE DEF g
<1>2. g.nodes = nodes /\ g.edges = graph.edges /\ g.relations = graph.relations
  <2> HIDE DEF nodes
  <2> QED  BY <1>1
<1>3. IsSequence(nodes) /\ ToSet(nodes) = ToSet(graph.nodes) \cup {node}
  BY AppendOwn DEF IsGraph
<1>4. NodeIds(graph) = {n.id : n \in ToSet(graph.nodes)}
  BY IdsOfMembers DEF IsGraph, NodeIds
<1>5. DistinctIds(nodes)
  <2> DEFINE S == ToSet(graph.nodes) \cup {node}
  <2>1. graph.nodes \in Seq(S) /\ node \in S
    BY DEF IsGraph, IsSequence
  <2>2. \A n \in ToSet(graph.nodes) : n.id # node.id
    BY <1>4
  <2> HIDE DEF S
  <2> QED  BY <2>1, <2>2, AppendMembers DEF IsGraph
<1> HIDE DEF nodes
<1>6. NodeIds(g) = NodeIds(graph) \cup {node.id}
  <2>1. NodeIds(g) = {n.id : n \in ToSet(nodes)}
    BY <1>2, <1>3, IdsOfMembers DEF NodeIds
  <2> QED  BY <1>3, <1>4, <2>1
<1>7. IsGraph(g)
  <2>1. g = [nodes |-> g.nodes, edges |-> g.edges, relations |-> g.relations]
    BY <1>1, <1>2
  <2> QED  BY <1>2, <1>3, <1>5, <1>6, <2>1 DEF IsGraph
<1> QED  BY <1>6, <1>7 DEF g

\* The node of a column joins unless it did.
LEMMA FieldNodeJoins ==
    ASSUME NEW graph, IsGraph(graph), NEW parent, NEW column
    PROVE  IsGraph(EnsureFieldNode(graph, parent, column))
<1> DEFINE id == FieldId(parent, column)
           node == [id |-> id, type |-> "field", materialized |-> "", text |-> NoText,
                    package |-> Attributes(graph, parent).package]
<1>1. node.id = id
  OBVIOUS
<1>2. EnsureFieldNode(graph, parent, column)
          = IF HasNode(graph, id) THEN graph ELSE AddEdge(AddNode(graph, node), Edge(parent, id, "internal"))
  BY DEF EnsureFieldNode
<1> HIDE DEF id, node
<1>3. CASE HasNode(graph, id)
  BY <1>2, <1>3
<1>4. CASE ~HasNode(graph, id)
  <2>1. IsGraph(AddNode(graph, node))
    BY <1>1, <1>4, HasNodeId, NodeJoins
  <2>2. IsGraph(AddEdge(AddNode(graph, node), Edge(parent, id, "internal")))
    BY <2>1, AddEdgeKeeps
  <2> QED  BY <1>2, <1>4, <2>2
<1> QED  BY <1>3, <1>4

\* A column and its edge to the resource that has it join.
LEMMA FieldJoins ==
    ASSUME NEW graph, IsGraph(graph), NEW c
    PROVE  IsGraph(AddField(graph, c))
<1>1. CASE ~HasNode(graph, c.node)
  BY <1>1 DEF AddField
<1>2. CASE HasNode(graph, c.node) /\ c.source = <<>>
  BY <1>2, FieldNodeJoins DEF AddField
<1>3. CASE HasNode(graph, c.node) /\ c.source # <<>>
  <2> DEFINE parent == ResolveRelation(graph, c.source.table)
             column == c.source.column
             field == FieldId(c.node, c.column)
  <2>1. AddField(graph, c) = JoinField(graph, parent, column, field)
    BY <1>3 DEF AddField
  <2> HIDE DEF parent, column, field
  <2>2. CASE parent = NotResolved
    BY <2>1, <2>2 DEF JoinField
  <2>3. CASE parent # NotResolved
    <3>1. IsGraph(EnsureFieldNode(graph, parent, column))
      BY FieldNodeJoins
    <3>2. IsGraph(AddEdge(EnsureFieldNode(graph, parent, column), Edge(FieldId(parent, column), field, "field")))
      BY <3>1, AddEdgeKeeps
    <3> QED  BY <2>1, <2>3, <3>2 DEF JoinField
  <2> QED  BY <2>2, <2>3
<1> QED  BY <1>1, <1>2, <1>3

\* Columns join one at a time.
LEMMA AddFieldsUnfolds ==
    ASSUME NEW graph, NEW columns, Len(columns) \in Nat
    PROVE  \E g : /\ g[0] = graph /\ AddFields(graph, columns) = g[Len(columns)]
                  /\ \A n \in 1 .. Len(columns) : g[n] = AddField(g[n - 1], columns[n])
<1> DEFINE N == Len(columns)
           zero == graph
           F(q, n) == AddField(q, columns[n])
           Defines(f, m) == f = [n \in 0 .. m |-> IF n = 0 THEN zero ELSE F(f[n - 1], n)]
           done == {m \in 0 .. N : \E f : Defines(f, m)}
<1>1. N \in Nat
  OBVIOUS
<1>2. AddFields(graph, columns) = (CHOOSE f : Defines(f, N))[N]
  BY DEF AddFields
<1> HIDE DEF F, N, zero
<1>3. 0 \in done
  <2> DEFINE f == [n \in 0 .. 0 |-> zero]
  <2>1. Defines(f, 0)
    OBVIOUS
  <2> HIDE DEF Defines, f
  <2> QED  BY <1>1, <2>1
<1>4. ASSUME NEW m \in 1 .. N, m - 1 \in done PROVE m \in done
  <2>1. PICK f : Defines(f, m - 1)
    BY <1>4
  <2>2. \A k \in 0 .. m - 1 : f[k] = IF k = 0 THEN zero ELSE F(f[k - 1], k)
    BY <2>1, Zenon
  <2> DEFINE g == [k \in 0 .. m |-> IF k = m THEN F(f[m - 1], m) ELSE f[k]]
  <2>3. g[m] = F(f[m - 1], m) /\ \A k \in 0 .. m - 1 : g[k] = f[k]
    BY <1>1
  <2>4. g = [k \in 0 .. m |-> g[k]]
    OBVIOUS
  <2> HIDE DEF g, Defines
  <2>5. \A k \in 0 .. m : g[k] = IF k = 0 THEN zero ELSE F(g[k - 1], k)
    <3> TAKE k \in 0 .. m
    <3>1. CASE k = m
      <4>1. m # 0 /\ m - 1 \in 0 .. m - 1
        OBVIOUS
      <4> QED  BY <2>3, <3>1, <4>1
    <3>2. CASE k # m
      <4>1. k \in 0 .. m - 1 /\ (k # 0 => k - 1 \in 0 .. m - 1)
        BY <3>2
      <4> QED  BY <2>2, <2>3, <4>1
    <3> QED  BY <3>1, <3>2
  <2>6. Defines(g, m)
    BY <2>4, <2>5 DEF Defines
  <2>7. m \in 0 .. N
    BY <1>1
  <2> QED  BY <2>6, <2>7
<1> HIDE DEF done
<1>5. 0 .. N \subseteq done
  BY <1>1, <1>3, <1>4, BoundedInduction
<1>6. N \in done
  BY <1>1, <1>5
<1> DEFINE g == CHOOSE f : Defines(f, N)
<1>7. Defines(g, N)
  <2> HIDE DEF Defines
  <2> QED  BY <1>6 DEF done
<1> HIDE DEF g
<1>8. \A n \in 0 .. N : g[n] = IF n = 0 THEN zero ELSE F(g[n - 1], n)
  BY <1>7, Zenon
<1>9. g[0] = zero /\ \A n \in 1 .. N : g[n] = F(g[n - 1], n)
  <2>1. 0 \in 0 .. N /\ \A n \in 1 .. N : n \in 0 .. N /\ n # 0
    BY <1>1
  <2> QED  BY <1>8, <2>1
<1>10. AddFields(graph, columns) = g[N]
  BY <1>2 DEF g
<1> QED  BY <1>9, <1>10 DEF N, F, zero

\* Whatever columns join, it stays a graph, with their nodes.
LEMMA FieldsJoin ==
    ASSUME NEW graph, IsGraph(graph), NEW columns, IsSequence(columns)
    PROVE  IsGraph(AddFields(graph, columns))
<1>1. PICK N \in Nat : N = Len(columns)
  BY LenProperties DEF IsSequence
<1>2. PICK g : /\ g[0] = graph /\ AddFields(graph, columns) = g[N]
               /\ \A n \in 1 .. N : g[n] = AddField(g[n - 1], columns[n])
  BY <1>1, AddFieldsUnfolds
<1> DEFINE right == {n \in 0 .. N : IsGraph(g[n])}
<1>3. 0 \in right
  BY <1>2
<1>4. ASSUME NEW n \in 1 .. N, n - 1 \in right PROVE n \in right
  <2>1. IsGraph(AddField(g[n - 1], columns[n]))
    BY <1>4, FieldJoins
  <2> QED  BY <1>2, <2>1
<1> HIDE DEF right
<1>5. 0 .. N \subseteq right /\ N \in 0 .. N
  BY <1>3, <1>4, BoundedInduction
<1> QED  BY <1>2, <1>5 DEF right

\* The edges between columns are a list.
LEMMA FieldEdgesAreList ==
    ASSUME NEW child, NEW dependencies, IsSequence(dependencies),
           \A d \in ToSet(dependencies) : IsSequence(d.sources)
    PROVE  IsSequence(AddFieldEdges(child, dependencies))
<1> DEFINE first(i) == <<[node |-> child, column |-> dependencies[i].target, source |-> <<>>]>>
           rest(i) == [j \in DOMAIN dependencies[i].sources |->
                          [node |-> child, column |-> dependencies[i].target,
                           source |-> dependencies[i].sources[j]]]
           ss == [i \in DOMAIN dependencies |-> first(i) \o rest(i)]
<1>1. PICK n \in Nat : n = Len(dependencies) /\ DOMAIN dependencies = 1 .. n
  BY LenProperties DEF IsSequence
<1>2. \A i \in 1 .. n : IsSequence(dependencies[i].sources)
  BY <1>1 DEF ToSet
<1>3. ASSUME NEW i \in 1 .. n PROVE IsSequence(first(i) \o rest(i))
  <2>1. PICK m \in Nat : m = Len(dependencies[i].sources) /\ DOMAIN dependencies[i].sources = 1 .. m
    BY <1>2, LenProperties DEF IsSequence
  <2> DEFINE p == first(i)
             q == rest(i)
  <2>2. p = [j \in 1 .. 1 |-> p[j]]
    OBVIOUS
  <2>3. q = [j \in 1 .. m |-> q[j]]
    BY <2>1
  <2> HIDE DEF p, q
  <2>4. IsSequence(p) /\ IsSequence(q)
    <3>1. 1 \in Nat
      OBVIOUS
    <3> QED  BY <2>2, <2>3, <3>1, OfPlaces
  <2>5. IsSequence(p \o q)
    BY <2>4, ConcatOwn
  <2> QED  BY <2>5 DEF p, q
<1> HIDE DEF first, rest
<1>4. ss = [i \in 1 .. n |-> ss[i]] /\ \A i \in 1 .. n : IsSequence(ss[i])
  BY <1>1, <1>3
<1> HIDE DEF ss
<1>5. IsSequence(FlattenSeq(ss))
  BY <1>4, FlatHolds
<1> QED  BY <1>5 DEF AddFieldEdges, ss, first, rest

\* The columns of the catalog are a list.
LEMMA ColumnsAreList ==
    ASSUME NEW columns, NEW analyses, AreColumns(columns), AreDerivations(analyses)
    PROVE  IsSequence(LineageColumns(columns, analyses))
<1>1. IsSequence(AddFieldNodes(columns))
  <2> DEFINE row(i) == [j \in DOMAIN columns[i].columns |->
                           [node |-> columns[i].id, column |-> columns[i].columns[j], source |-> <<>>]]
             ss == [i \in DOMAIN columns |-> row(i)]
  <2>1. PICK n \in Nat : n = Len(columns) /\ DOMAIN columns = 1 .. n
    BY LenProperties DEF AreColumns, IsSequence
  <2>2. \A i \in 1 .. n : columns[i].columns \in Seq(Nat \ {0})
    BY <2>1 DEF AreColumns, ToSet
  <2>3. ASSUME NEW i \in 1 .. n PROVE IsSequence(row(i))
    <3>1. PICK m \in Nat : m = Len(columns[i].columns) /\ DOMAIN columns[i].columns = 1 .. m
      BY <2>2, LenProperties
    <3> DEFINE q == row(i)
    <3>2. q = [j \in 1 .. m |-> q[j]]
      BY <3>1
    <3> HIDE DEF q
    <3>3. IsSequence(q)
      BY <3>2, OfPlaces
    <3> QED  BY <3>3 DEF q
  <2> HIDE DEF row
  <2>4. ss = [i \in 1 .. n |-> ss[i]] /\ \A i \in 1 .. n : IsSequence(ss[i])
    BY <2>1, <2>3
  <2> HIDE DEF ss
  <2>5. IsSequence(FlattenSeq(ss))
    BY <2>4, FlatHolds
  <2> QED  BY <2>5 DEF AddFieldNodes, ss, row
<1> DEFINE tt == [i \in DOMAIN analyses |-> AddFieldEdges(analyses[i].id, analyses[i].dependencies)]
<1>2. IsSequence(FlattenSeq(tt))
  <2>1. PICK n \in Nat : n = Len(analyses) /\ DOMAIN analyses = 1 .. n
    BY LenProperties DEF AreDerivations, IsSequence
  <2>2. \A i \in 1 .. n : analyses[i] \in ToSet(analyses)
    BY <2>1 DEF ToSet
  <2>3. \A i \in 1 .. n : IsSequence(AddFieldEdges(analyses[i].id, analyses[i].dependencies))
    BY <2>2, FieldEdgesAreList DEF AreDerivations
  <2>4. tt = [i \in 1 .. n |-> tt[i]] /\ \A i \in 1 .. n : IsSequence(tt[i])
    BY <2>1, <2>3
  <2> HIDE DEF tt
  <2> QED  BY <2>4, FlatHolds
<1> HIDE DEF tt
<1>3. IsSequence(AddFieldNodes(columns) \o FlattenSeq(tt))
  BY <1>1, <1>2, ConcatOwn
<1> QED  BY <1>3 DEF LineageColumns, tt

\* The graph with the lineage of columns is a graph, with a node for each column.
LEMMA LineageIsGraph ==
    ASSUME NEW graph, IsGraph(graph), NEW columns, NEW analyses, AreColumns(columns), AreDerivations(analyses)
    PROVE  IsGraph(AddFieldLevelLineage(graph, columns, analyses))
<1>1. IsSequence(LineageColumns(columns, analyses))
  BY ColumnsAreList
<1> QED  BY <1>1, FieldsJoin DEF AddFieldLevelLineage

\* From what is no node nothing is reached.
LEMMA NowhereFrom ==
    ASSUME NEW graph, IsGraph(graph), NEW direction, NEW id, ~HasNode(graph, id)
    PROVE  \A n \in Nat : Reached(graph, direction, id, n) = {}
<1> DEFINE none == {n \in Nat : Reached(graph, direction, id, n) = {}}
<1>1. Steps(graph, direction, {id}) = {}
  <2>1. {id} \cap NodeIds(graph) = {}
    BY HasNodeId
  <2>2. Steps(graph, direction, {id}) = Steps(graph, direction, {})
    BY <2>1, StepsAreNodes
  <2>3. Parents(graph, {}) = {} /\ Children(graph, {}) = {}
    BY DEF Parents, Children
  <2> QED  BY <2>2, <2>3 DEF Steps
<1>2. /\ 0 \in none
      /\ \A n \in Nat : Reached(graph, direction, id, n + 1)
                            = OneFurther(graph, direction, id, Reached(graph, direction, id, n))
  BY ReachedGrows
<1>3. ASSUME NEW n \in Nat, n \in none PROVE n + 1 \in none
  <2>1. PICK before : before = Reached(graph, direction, id, n) /\ before = {}
    BY <1>3
  <2>2. Reached(graph, direction, id, n + 1) = before \cup Steps(graph, direction, before \cup {id})
    <3>1. Reached(graph, direction, id, n + 1) = OneFurther(graph, direction, id, before)
      BY <1>2, <2>1
    <3> QED  BY <3>1 DEF OneFurther
  <2>3. before \cup {id} = {id}
    BY <2>1
  <2>4. Reached(graph, direction, id, n + 1) = {}
    BY <1>1, <2>1, <2>2, <2>3
  <2> QED  BY <2>4
<1> HIDE DEF none
<1>4. Nat \subseteq none
  BY <1>2, <1>3, SetInduction
<1> QED  BY <1>4 DEF none

\* So does a traversal from what is no node: it finds nothing.
LEMMA AnyTraversalReaches ==
    ASSUME NEW graph, IsGraph(graph), NEW direction, NEW root, NEW maxDepth, IsLimit(maxDepth)
    PROVE  AreDistances(graph, root, direction, maxDepth, Traverse(graph, root, maxDepth, direction))
<1>1. CASE HasNode(graph, root)
  BY <1>1, TraverseReaches
<1>2. CASE ~HasNode(graph, root)
  <2>1. Traverse(graph, root, maxDepth, direction) = <<>>
    BY <1>2 DEF Traverse
  <2>2. Bounded(graph, maxDepth) \in Nat
    <3>1. Len(graph.nodes) \in Nat
      BY OwnMembers DEF IsGraph, IsSequence
    <3> QED  BY <3>1 DEF Bounded, Within, IsLimit, Unlimited
  <2>3. Reached(graph, direction, root, Bounded(graph, maxDepth)) = {}
    BY <1>2, <2>2, NowhereFrom
  <2>4. DOMAIN <<>> = {} /\ FoundIds(<<>>) = {} /\ ToSet(<<>>) = {} /\ Len(<<>>) = 0
    BY DEF FoundIds, ToSet
  <2>5. NoneTwice(<<>>)
    BY <2>4, FS_EmptySet DEF NoneTwice
  <2> QED  BY <2>1, <2>3, <2>4, <2>5 DEF AreDistances
<1> QED  BY <1>1, <1>2

\* The flat answer is that traversal.
LEMMA EntriesReach ==
    ASSUME NEW graph, IsGraph(graph), NEW direction \in {"upstream", "downstream"}, NEW root,
           NEW maxDepth, IsLimit(maxDepth)
    PROVE  /\ Entries(graph, root, direction, maxDepth) = Traverse(graph, root, maxDepth, direction)
           /\ AreDistances(graph, root, direction, maxDepth, Entries(graph, root, direction, maxDepth))
<1>1. Entries(graph, root, direction, maxDepth) = Traverse(graph, root, maxDepth, direction)
  BY DEF Entries, Upstream, Downstream
<1> QED  BY <1>1, AnyTraversalReaches

\* What was found of a field.
LEMMA FieldAnswer ==
    ASSUME NEW graph, IsGraph(graph), NEW columns, NEW analyses, AreColumns(columns),
           AreDerivations(analyses), NEW row \in ToSet(columns), NEW column \in ToSet(row.columns),
           NEW direction \in {"upstream", "downstream"}, NEW options,
           options = [direction |-> direction, depth |-> Unlimited, tree |-> FALSE, buildOrder |-> FALSE]
    PROVE  AreDependencies(AddFieldLevelLineage(graph, columns, analyses), FieldId(row.id, column), options,
                           Deps(graph, row.id, column, columns, analyses, options))
<1> DEFINE used == AddFieldLevelLineage(graph, columns, analyses)
           target == FieldId(row.id, column)
           given == Entries(used, target, direction, Unlimited)
<1>1. column # 0 /\ columns # <<>>
  <2>1. row.columns \in Seq(Nat \ {0})
    BY DEF AreColumns
  <2>2. column \in Nat \ {0}
    BY <2>1 DEF ToSet
  <2>3. columns # <<>>
    BY DEF ToSet
  <2> QED  BY <2>2, <2>3
<1>2. IsGraph(used)
  BY LineageIsGraph
<1>3. /\ options.direction = direction /\ options.depth = Unlimited
      /\ options.tree = FALSE /\ options.buildOrder = FALSE
  OBVIOUS
<1>4. Deps(graph, row.id, column, columns, analyses, options) = given
  BY <1>1, <1>3 DEF Deps, GetDependencies
<1> HIDE DEF used, target
<1>5. AreDistances(used, target, direction, Unlimited, given)
  BY <1>2, EntriesReach DEF IsLimit
<1> HIDE DEF given
<1>6. AreDependencies(used, target, options, given)
  BY <1>3, <1>5 DEF AreDependencies
<1> QED  BY <1>4, <1>6 DEF used, target

-----------------------------------------------------------------------------
(* Subgraphs and impact. *)
LEMMA InducedIs ==
    ASSUME NEW graph, IsGraph(graph), NEW ids
    PROVE  LET g == Induced(graph, ids)
           IN  /\ IsGraph(g) /\ NodeIds(g) = NodeIds(graph) \cap ids
               /\ ToSet(g.nodes) \subseteq ToSet(graph.nodes)
               /\ ToSet(g.edges) = {e \in ToSet(graph.edges) : e.from \in ids /\ e.to \in ids}
<1> DEFINE keptNodes == {n \in ToSet(graph.nodes) : n.id \in ids}
           keptEdges == {e \in ToSet(graph.edges) : e.from \in ids /\ e.to \in ids}
           nodes == Only(graph.nodes, keptNodes)
           edges == Only(graph.edges, keptEdges)
           g == Induced(graph, ids)
<1>1. g = [nodes |-> nodes, edges |-> edges, relations |-> graph.relations]
  <2>1. g = [graph EXCEPT !.nodes = nodes, !.edges = edges]
    BY DEF Induced
  <2> HIDE DEF g, nodes, edges
  <2> QED  BY <2>1 DEF IsGraph
<1>2. /\ IsSequence(nodes) /\ ToSet(nodes) = ToSet(graph.nodes) \cap keptNodes /\ DistinctIds(nodes)
      /\ IsSequence(edges) /\ ToSet(edges) = ToSet(graph.edges) \cap keptEdges
  <2> HIDE DEF keptNodes, keptEdges
  <2> QED  BY OnlyOwn DEF IsGraph
<1> HIDE DEF nodes, edges, g
<1>3. g.nodes = nodes /\ g.edges = edges /\ g.relations = graph.relations
  BY <1>1
<1>4. NodeIds(graph) = {n.id : n \in ToSet(graph.nodes)} /\ NodeIds(g) = {n.id : n \in ToSet(nodes)}
  BY <1>2, <1>3, IdsOfMembers DEF IsGraph, NodeIds
<1>5. NodeIds(g) = NodeIds(graph) \cap ids
  BY <1>2, <1>4
<1>6. ToSet(g.edges) = keptEdges
  BY <1>2, <1>3
<1>7. \A e \in ToSet(g.edges) : e.from \in NodeIds(g) /\ e.to \in NodeIds(g)
  BY <1>5, <1>6 DEF IsGraph
<1>8. g = [nodes |-> g.nodes, edges |-> g.edges, relations |-> g.relations]
  BY <1>1, <1>3
<1>9. IsGraph(g)
  BY <1>2, <1>3, <1>7, <1>8 DEF IsGraph
<1>10. ToSet(g.nodes) \subseteq ToSet(graph.nodes)
  BY <1>2, <1>3
<1> QED  BY <1>5, <1>6, <1>9, <1>10 DEF g

\* What is reached are nodes.
LEMMA ReachedAreNodes ==
    ASSUME NEW graph, IsGraph(graph), NEW direction, NEW root, HasNode(graph, root)
    PROVE  \A n \in Nat : Reached(graph, direction, root, n) \subseteq NodeIds(graph)
<1>1. WalksFrom(graph, direction, root) \in [Nat -> SUBSET NodeIds(graph)]
  BY GraphHasWalks DEF AreWalks
<1> QED  BY <1>1 DEF WalksFrom

\* A depth without a limit is as deep as there are nodes.
LEMMA BoundIsNumber ==
    ASSUME NEW graph, IsGraph(graph), NEW maxDepth, IsLimit(maxDepth)
    PROVE  Bounded(graph, maxDepth) \in Nat /\ Len(graph.nodes) \in Nat
<1>1. Len(graph.nodes) \in Nat
  BY OwnMembers DEF IsGraph, IsSequence
<1> QED  BY <1>1 DEF Bounded, Within, IsLimit, Unlimited

\* What is left in a subgraph (graph.ts:210).
LEMMA SubgraphAnswer ==
    ASSUME IsGraph(Graph), NEW id \in NodeIds(Graph), NEW direction \in {"upstream", "downstream", "both"},
           NEW depth, IsLimit(depth), NEW types, NEW asked,
           asked = [id |-> id, direction |-> direction, depth |-> depth, types |-> types]
    PROVE  IsSubgraph(asked, Subgraph(Graph, id, direction, depth, types))
<1> DEFINE up == IF direction \in {"upstream", "both"} THEN FoundIds(Upstream(Graph, id, depth)) ELSE {}
           down == IF direction \in {"downstream", "both"} THEN FoundIds(Downstream(Graph, id, depth)) ELSE {}
           ids == {id} \cup {n \in up \cup down : Attributes(Graph, n).type \in types}
           Found(d) == IF direction \in {d, "both"}
                       THEN Reached(Graph, d, id, Bounded(Graph, depth)) ELSE {}
<1>1. HasNode(Graph, id)
  BY HasNodeId
<1>2. /\ FoundIds(Upstream(Graph, id, depth)) = Reached(Graph, "upstream", id, Bounded(Graph, depth))
      /\ FoundIds(Downstream(Graph, id, depth)) = Reached(Graph, "downstream", id, Bounded(Graph, depth))
  <2>1. /\ Upstream(Graph, id, depth) = Traverse(Graph, id, depth, "upstream")
        /\ Downstream(Graph, id, depth) = Traverse(Graph, id, depth, "downstream")
    BY DEF Upstream, Downstream
  <2> QED  BY <1>1, <2>1, TraverseReaches
<1>3. up = Found("upstream") /\ down = Found("downstream")
  BY <1>2
<1>4. up \subseteq NodeIds(Graph) /\ down \subseteq NodeIds(Graph)
  BY <1>1, <1>2, BoundIsNumber, ReachedAreNodes
<1>5. Subgraph(Graph, id, direction, depth, types) = Induced(Graph, ids)
  BY DEF Subgraph
<1> DEFINE wanted == {id} \cup {n \in Found("upstream") \cup Found("downstream") :
                                   Attributes(Graph, n).type \in types}
<1>6. ids = wanted
  BY <1>3
<1> HIDE DEF up, down
<1>7. ids \subseteq NodeIds(Graph)
  BY <1>4
<1> HIDE DEF ids
<1>8. NodeIds(Subgraph(Graph, id, direction, depth, types)) = wanted
  BY <1>5, <1>6, <1>7, InducedIs
<1>9. asked.id = id /\ asked.direction = direction /\ asked.depth = depth /\ asked.types = types
  OBVIOUS
<1> QED  BY <1>8, <1>9 DEF IsSubgraph

\* The critical resources of impact are some of those downstream.
LEMMA FanoutIsFound ==
    ASSUME NEW graph, NEW ids, IsSequence(ids)
    PROVE  ToSet(DownstreamModelFanout(graph, ids)) \subseteq ToSet(ids)
<1> DEFINE kept == {n \in ToSet(ids) : Attributes(graph, n).type = "model"}
           models == Only(ids, kept)
           earlier == {p \in Pairs(models) : Len(Outbound(graph, p[1])) > Len(Outbound(graph, p[2]))}
           ranked == Sorted(models, earlier)
           n == Min({8, Len(ranked)})
           top == SubSeq(ranked, 1, n)
<1>1. DownstreamModelFanout(graph, ids) = top
  BY DEF DownstreamModelFanout
<1>2. IsSequence(models) /\ ToSet(models) \subseteq ToSet(ids)
  <2> HIDE DEF kept
  <2> QED  BY OnlyOwn
<1> HIDE DEF models, earlier
<1>3. ranked \in Seq(ToSet(models))
  BY <1>2, SortedKeeps DEF IsSequence
<1> HIDE DEF ranked
<1>4. Len(ranked) \in Nat /\ \A i \in 1 .. Len(ranked) : ranked[i] \in ToSet(models)
  BY <1>3, LenProperties
<1>5. n \in Nat /\ n <= Len(ranked)
  BY <1>4, MinOfTwo
<1> HIDE DEF n
<1>6. top \in Seq(ToSet(models))
  <2>1. 1 \in 1 .. Len(ranked) + 1 /\ n \in 0 .. Len(ranked)
    BY <1>4, <1>5
  <2>2. \A i \in 1 .. n : ranked[i] \in ToSet(models)
    BY <1>4, <1>5
  <2> QED  BY <1>3, <1>4, <1>5, <2>1, <2>2, SubSeqProperties
<1> HIDE DEF top
<1>7. ToSet(top) \subseteq ToSet(models)
  BY <1>6, OwnMembers
<1> QED  BY <1>1, <1>2, <1>7

\* What impact counts.
LEMMA ImpactAnswer ==
    ASSUME bundle \in Bundles, IsGraph(Graph), NEW id \in NodeIds(Graph), NEW given,
           given = Impact(Graph, id, <<>>)
    PROVE  LET size == Len(Graph.nodes)
           IN /\ given.upstream = Cardinality(Reached(Graph, "upstream", id, size))
              /\ given.downstream = Cardinality(Reached(Graph, "downstream", id, size))
              /\ ToSet(given.critical) \subseteq Reached(Graph, "downstream", id, size)
<1>1. HasNode(Graph, id)
  BY HasNodeId
<1> DEFINE up == Traverse(Graph, id, Unlimited, "upstream")
           down == Traverse(Graph, id, Unlimited, "downstream")
           ids == [i \in DOMAIN down |-> down[i].id]
           critical == DownstreamModelFanout(Graph, ids)
           m == Len(Graph.nodes)
<1>2. Resolves(id)
  <2>1. HasResources(Graph)
    BY GraphIsOfEntries
  <2>2. PICK i \in DOMAIN Graph.nodes : Graph.nodes[i].id = id
    BY <1>1 DEF HasNode
  <2>3. id \in ManifestTypes \X Nat \X Nat
    BY <2>1, <2>2 DEF HasResources, IsResource, ToSet
  <2>4. PICK a, b, c : id = <<a, b, c>>
    BY <2>3
  <2>5. Len(<<a, b, c>>) = 3 /\ Len(<<"ambiguous">>) = 1 /\ Len(<<"unmatched">>) = 1
    OBVIOUS
  <2> QED  BY <2>4, <2>5 DEF Resolves, Ambiguous, Unmatched
<1>3. given = [target |-> id, upstream |-> Len(up), downstream |-> Len(down), critical |-> critical]
  BY <1>1, <1>2 DEF Impact, ResolveIntentTarget, ImpactOf, Upstream, Downstream
<1>4. IsLimit(Unlimited) /\ Bounded(Graph, Unlimited) = m
  BY DEF IsLimit, Bounded, Within
<1> HIDE DEF up, down, critical, m
<1>5. given.upstream = Len(up) /\ given.downstream = Len(down) /\ given.critical = critical
  BY <1>3
<1>6. /\ up \in Seq(FoundIn(NodeIds(Graph))) /\ DistinctIds(up)
      /\ FoundIds(up) = Reached(Graph, "upstream", id, m)
  BY <1>1, <1>4, TraverseReaches DEF up
<1>7. /\ down \in Seq(FoundIn(NodeIds(Graph))) /\ DistinctIds(down)
      /\ FoundIds(down) = Reached(Graph, "downstream", id, m)
  BY <1>1, <1>4, TraverseReaches DEF down
<1>8. /\ IsSequence(up) /\ IsSequence(down)
      /\ FoundIds(up) \subseteq NodeIds(Graph) /\ FoundIds(down) \subseteq NodeIds(Graph)
  <2>1. IsSequence(up) /\ IsSequence(down)
    BY <1>6, <1>7, OwnMembers
  <2>2. m \in Nat
    BY <1>4, BoundIsNumber DEF m
  <2> QED  BY <1>1, <1>6, <1>7, <2>1, <2>2, ReachedAreNodes
<1>9. Cardinality(FoundIds(up)) = Len(up) /\ Cardinality(FoundIds(down)) = Len(down)
  BY <1>6, <1>7, <1>8, FoundAreNodes
<1>10. ToSet(critical) \subseteq FoundIds(down)
  <2>1. PICK n \in Nat : n = Len(down) /\ DOMAIN down = 1 .. n
    BY <1>8, OwnMembers DEF IsSequence
  <2>2. ids = [i \in 1 .. n |-> ids[i]]
    BY <2>1
  <2>3. ToSet(ids) = FoundIds(down)
    BY DEF ToSet, FoundIds
  <2> HIDE DEF ids
  <2>4. IsSequence(ids)
    BY <2>2, OfPlaces
  <2>5. ToSet(critical) \subseteq ToSet(ids)
    BY <2>4, FanoutIsFound DEF critical
  <2> QED  BY <2>3, <2>5
<1> QED  BY <1>5, <1>6, <1>7, <1>9, <1>10 DEF m

-----------------------------------------------------------------------------
(* What everything upstream is: walks longer than there are nodes lead to nothing new. *)
LEMMA WalksEnd ==
    ASSUME NEW graph, IsGraph(graph), NEW direction, NEW root, HasNode(graph, root), NEW more \in Nat
    PROVE  Reached(graph, direction, root, Len(graph.nodes) + more)
               = Reached(graph, direction, root, Len(graph.nodes))
<1> DEFINE V == NodeIds(graph)
           adj == NextTo(graph, direction)
           W == WalksFrom(graph, direction, root)
           f == Traverse(graph, root, Unlimited, direction)
<1>1. PICK N \in Nat : N = Len(graph.nodes)
  BY BoundIsNumber DEF IsLimit
<1>2. IsLimit(Unlimited) /\ \A k : Within(k, Unlimited)
  BY DEF IsLimit, Within
<1>3. AreWalks(V, adj, root, W)
  BY GraphHasWalks
<1>4. Visited(V, adj, root, W, Unlimited, N, f)
  BY <1>1, <1>2, TraverseVisits
<1>5. f \in Seq(FoundIn(V)) /\ Len(f) <= N /\ Len(f) \in Nat
  <2>1. f \in Seq(FoundIn(V)) /\ Len(f) <= N
    BY <1>1, <1>2, TraverseReaches
  <2> QED  BY <2>1, FoundOf
<1>6. \A n \in Nat : Reached(graph, direction, root, n) = W[n]
  BY DEF WalksFrom
<1> HIDE DEF V, adj, W, f
<1> DEFINE same == {n \in Nat : Visited(V, adj, root, W, Unlimited, N + n, f)}
<1>7. 0 \in same
  <2>1. N + 0 = N
    OBVIOUS
  <2> QED  BY <1>4, <2>1
<1>8. ASSUME NEW n \in Nat, n \in same PROVE n + 1 \in same
  <2>1. PICK k \in Nat \ {0} : k = N + (n + 1) /\ k - 1 = N + n /\ k > Len(f)
    BY <1>5
  <2>2. Visited(V, adj, root, W, Unlimited, k - 1, f)
    BY <1>8, <2>1
  <2>3. Visited(V, adj, root, W, Unlimited, k, f)
    BY <1>2, <1>3, <2>1, <2>2, SameVisited
  <2> QED  BY <2>1, <2>3
<1> HIDE DEF same
<1>9. Nat \subseteq same
  BY <1>7, <1>8, SetInduction
<1>10. ASSUME NEW n \in Nat PROVE FoundIds(f) = W[N + n]
  <2>1. PICK k \in Nat : k = N + n
    OBVIOUS
  <2>2. Visited(V, adj, root, W, Unlimited, k, f) /\ Len(f) <= k
    <3>1. n \in same
      BY <1>9
    <3>2. Visited(V, adj, root, W, Unlimited, N + n, f)
      BY <3>1 DEF same
    <3> QED  BY <1>5, <2>1, <3>2
  <2>3. FoundIds(f) = W[IF Within(k, Unlimited) THEN k ELSE Unlimited]
    BY <1>2, <1>3, <2>2, AllVisited
  <2> QED  BY <1>2, <2>1, <2>3
<1>11. W[N + more] = W[N + 0]
  BY <1>10
<1>12. N + more \in Nat /\ N + 0 = N
  OBVIOUS
<1> QED  BY <1>1, <1>6, <1>11, <1>12

AllReached(graph, direction, id) == Reached(graph, direction, id, Len(graph.nodes))

\* Whatever is an edge away from all that is reached was reached.
LEMMA AllIsClosed ==
    ASSUME NEW graph, IsGraph(graph), NEW direction, NEW root, HasNode(graph, root)
    PROVE  Steps(graph, direction, AllReached(graph, direction, root) \cup {root})
               \subseteq AllReached(graph, direction, root)
<1>1. PICK N \in Nat : N = Len(graph.nodes)
  BY BoundIsNumber DEF IsLimit
<1>2. PICK all : all = Reached(graph, direction, root, N)
  OBVIOUS
<1>3. Reached(graph, direction, root, N + 1) = OneFurther(graph, direction, root, all)
  BY <1>2, ReachedGrows
<1>4. Reached(graph, direction, root, N + 1) = all
  BY <1>1, <1>2, WalksEnd
<1> QED  BY <1>1, <1>2, <1>3, <1>4 DEF AllReached, OneFurther

\* And nothing else is: each set that is closed under edges holds it.
LEMMA ReachedIsLeast ==
    ASSUME NEW graph, IsGraph(graph), NEW direction, NEW root, NEW S,
           Steps(graph, direction, {root}) \subseteq S, Steps(graph, direction, S) \subseteq S
    PROVE  \A n \in Nat : Reached(graph, direction, root, n) \subseteq S
<1> DEFINE in == {n \in Nat : Reached(graph, direction, root, n) \subseteq S}
<1>1. /\ 0 \in in
      /\ \A n \in Nat : Reached(graph, direction, root, n + 1)
                            = OneFurther(graph, direction, root, Reached(graph, direction, root, n))
  BY ReachedGrows
<1>2. ASSUME NEW n \in Nat, n \in in PROVE n + 1 \in in
  <2>1. PICK before : before = Reached(graph, direction, root, n)
    OBVIOUS
  <2>2. Reached(graph, direction, root, n + 1) = before \cup Steps(graph, direction, before \cup {root})
    BY <1>1, <2>1 DEF OneFurther
  <2>3. before \subseteq S
    BY <1>2, <2>1
  <2>4. Steps(graph, direction, before \cup {root}) \subseteq S
    <3>1. \A T : Steps(graph, direction, T) = UNION {Steps(graph, direction, {x}) : x \in T}
      BY StepsAreNodes
    <3>2. \A x \in before : Steps(graph, direction, {x}) \subseteq S
      <4>1. Steps(graph, direction, S) = UNION {Steps(graph, direction, {x}) : x \in S}
        BY <3>1
      <4>2. \A x \in S : Steps(graph, direction, {x}) \subseteq S
        BY <4>1
      <4> QED  BY <2>3, <4>2
    <3>3. Steps(graph, direction, before \cup {root})
              = UNION {Steps(graph, direction, {x}) : x \in before \cup {root}}
      BY <3>1
    <3>4. \A x \in before \cup {root} : Steps(graph, direction, {x}) \subseteq S
      BY <3>2
    <3> QED  BY <3>3, <3>4
  <2> QED  BY <2>2, <2>3, <2>4
<1> HIDE DEF in
<1>3. Nat \subseteq in
  BY <1>1, <1>2, SetInduction
<1> QED  BY <1>3 DEF in

\* What a neighbour reaches its neighbour does too.
LEMMA NeighborReachesLess ==
    ASSUME NEW graph, IsGraph(graph), NEW direction, NEW n \in NodeIds(graph),
           NEW p \in Steps(graph, direction, {n})
    PROVE  /\ p \in NodeIds(graph) /\ p \in AllReached(graph, direction, n)
           /\ AllReached(graph, direction, p) \subseteq AllReached(graph, direction, n)
<1>1. HasNode(graph, n)
  BY HasNodeId
<1> DEFINE S == AllReached(graph, direction, n)
<1>2. Steps(graph, direction, S \cup {n}) \subseteq S
  BY <1>1, AllIsClosed
<1>3. \A T : Steps(graph, direction, T) = UNION {Steps(graph, direction, {x}) : x \in T}
  BY StepsAreNodes
<1> HIDE DEF S
<1>4. Steps(graph, direction, {n}) \subseteq S /\ \A x \in S : Steps(graph, direction, {x}) \subseteq S
  <2>1. Steps(graph, direction, S \cup {n}) = UNION {Steps(graph, direction, {x}) : x \in S \cup {n}}
    BY <1>3
  <2> QED  BY <1>2, <2>1
<1>5. Steps(graph, direction, S) \subseteq S
  <2>1. Steps(graph, direction, S) = UNION {Steps(graph, direction, {x}) : x \in S}
    BY <1>3
  <2> QED  BY <1>4, <2>1
<1>6. p \in S /\ Steps(graph, direction, {p}) \subseteq S
  BY <1>4
<1>7. \A k \in Nat : Reached(graph, direction, p, k) \subseteq S
  BY <1>5, <1>6, ReachedIsLeast
<1>8. PICK N \in Nat : N = Len(graph.nodes)
  BY BoundIsNumber DEF IsLimit
<1>9. AllReached(graph, direction, p) \subseteq S
  BY <1>7, <1>8 DEF AllReached
<1>10. p \in NodeIds(graph)
  BY StepsAreNodes
<1> QED  BY <1>6, <1>9, <1>10 DEF S

\* A node among what it is reached from is on a cycle.
LEMMA CyclesAreReached ==
    ASSUME NEW graph, IsGraph(graph)
    PROVE  HasCycles(graph) <=> \E n \in NodeIds(graph) : n \in AllReached(graph, "upstream", n)
<1>1. IsLimit(Unlimited) /\ Bounded(graph, Unlimited) = Len(graph.nodes)
  BY DEF IsLimit, Bounded, Within
<1>2. ASSUME NEW n \in NodeIds(graph)
      PROVE  FoundIds(Upstream(graph, n, Unlimited)) = AllReached(graph, "upstream", n)
  <2>1. HasNode(graph, n)
    BY HasNodeId
  <2>2. FoundIds(Traverse(graph, n, Unlimited, "upstream")) = Reached(graph, "upstream", n, Bounded(graph, Unlimited))
    BY <1>1, <2>1, TraverseReaches
  <2> QED  BY <1>1, <2>2 DEF AllReached, Upstream
<1>3. NodeIds(graph) = {graph.nodes[i].id : i \in DOMAIN graph.nodes}
  BY DEF NodeIds, FoundIds
<1>4. \A i \in DOMAIN graph.nodes :
          FoundIds(Upstream(graph, graph.nodes[i].id, Unlimited)) = AllReached(graph, "upstream", graph.nodes[i].id)
  BY <1>2, <1>3
<1> QED  BY <1>3, <1>4 DEF HasCycles

\* What is not done yet has a node that all parents of are.
LEMMA SomeIsReady ==
    ASSUME NEW graph, IsGraph(graph), ~HasCycles(graph), NEW done, NEW left \in NodeIds(graph) \ ToSet(done)
    PROVE  /\ ReadyNodes(graph, done) # {}
           /\ Min(ReadyNodes(graph, done)) \in ReadyNodes(graph, done)
<1> DEFINE up(n) == AllReached(graph, "upstream", n)
           rest == NodeIds(graph) \ ToSet(done)
           sizes == {Cardinality(up(n)) : n \in rest}
<1>1. ASSUME NEW n \in NodeIds(graph)
      PROVE  IsFiniteSet(up(n)) /\ Cardinality(up(n)) \in Nat
  <2>1. HasNode(graph, n) /\ Len(graph.nodes) \in Nat
    BY HasNodeId, BoundIsNumber DEF IsLimit
  <2>2. up(n) \subseteq NodeIds(graph)
    BY <2>1, ReachedAreNodes DEF AllReached
  <2>3. IsFiniteSet(NodeIds(graph))
    <3>1. IsSequence(<<>>) /\ DistinctIds(<<>>) /\ FoundIds(<<>>) \subseteq NodeIds(graph)
      BY DEF IsSequence, DistinctIds, FoundIds
    <3> QED  BY <3>1, FoundAreNodes
  <2> QED  BY <2>2, <2>3, FS_Subset, FS_CardinalityType
<1>2. sizes \in SUBSET Nat /\ sizes # {}
  BY <1>1
<1>3. PICK least \in sizes : \A m \in sizes : least <= m
  BY <1>2, SmallestNumber
<1>4. PICK n \in rest : least = Cardinality(up(n))
  BY <1>3
<1>5. Parents(graph, {n}) \subseteq ToSet(done)
  <2> SUFFICES ASSUME NEW p \in Parents(graph, {n}), p \notin ToSet(done) PROVE FALSE
    OBVIOUS
  <2>1. p \in Steps(graph, "upstream", {n})
    BY DEF Steps
  <2>2. p \in NodeIds(graph) /\ p \in up(n) /\ up(p) \subseteq up(n)
    BY <2>1, NeighborReachesLess
  <2>3. p \notin up(p)
    BY <2>2, CyclesAreReached
  <2>4. Cardinality(up(p)) <= Cardinality(up(n)) /\ (Cardinality(up(p)) = Cardinality(up(n)) => up(p) = up(n))
    BY <1>1, <2>2, FS_Subset
  <2>5. Cardinality(up(n)) <= Cardinality(up(p))
    BY <1>3, <1>4, <2>2
  <2> QED  BY <1>1, <2>2, <2>3, <2>4, <2>5
<1>6. PICK i \in DOMAIN graph.nodes : graph.nodes[i].id = n
  BY <1>4 DEF NodeIds, FoundIds
<1>7. ToSet(Inbound(graph, n)) = Parents(graph, {n})
  BY NeighborsAreLists
<1>8. i \in ReadyNodes(graph, done)
  BY <1>5, <1>6, <1>7 DEF ReadyNodes
<1> DEFINE turns == ReadyNodes(graph, done)
<1>9. turns \in SUBSET Nat
  <2>1. DOMAIN graph.nodes \subseteq Nat
    BY OwnMembers DEF IsGraph, IsSequence
  <2> QED  BY <2>1 DEF ReadyNodes
<1> HIDE DEF turns
<1>10. \E x \in turns : \A y \in turns : x <= y
  BY <1>8, <1>9, SmallestNumber DEF turns
<1>11. Min(turns) \in turns
  BY <1>10 DEF Min
<1> QED  BY <1>8, <1>11 DEF turns

\* The sort takes one node at a time.
LEMMA SortUnfolds ==
    ASSUME NEW graph, ~HasCycles(graph), Len(graph.nodes) \in Nat
    PROVE  \E g : /\ g[0] = <<>> /\ TopologicalSort(graph) = g[Len(graph.nodes)]
                  /\ \A n \in 1 .. Len(graph.nodes) :
                         g[n] = Append(g[n - 1], graph.nodes[Min(ReadyNodes(graph, g[n - 1]))].id)
<1> DEFINE N == Len(graph.nodes)
           zero == <<>>
           F(q, n) == Append(q, graph.nodes[Min(ReadyNodes(graph, q))].id)
           Defines(f, m) == f = [n \in 0 .. m |-> IF n = 0 THEN zero ELSE F(f[n - 1], n)]
           done == {m \in 0 .. N : \E f : Defines(f, m)}
<1>1. N \in Nat
  OBVIOUS
<1>2. TopologicalSort(graph) = (CHOOSE f : Defines(f, N))[N]
  BY DEF TopologicalSort
<1> HIDE DEF F, N, zero
<1>3. 0 \in done
  <2> DEFINE f == [n \in 0 .. 0 |-> zero]
  <2>1. Defines(f, 0)
    OBVIOUS
  <2> HIDE DEF Defines, f
  <2> QED  BY <1>1, <2>1
<1>4. ASSUME NEW m \in 1 .. N, m - 1 \in done PROVE m \in done
  <2>1. PICK f : Defines(f, m - 1)
    BY <1>4
  <2>2. \A k \in 0 .. m - 1 : f[k] = IF k = 0 THEN zero ELSE F(f[k - 1], k)
    BY <2>1, Zenon
  <2> DEFINE g == [k \in 0 .. m |-> IF k = m THEN F(f[m - 1], m) ELSE f[k]]
  <2>3. g[m] = F(f[m - 1], m) /\ \A k \in 0 .. m - 1 : g[k] = f[k]
    BY <1>1
  <2>4. g = [k \in 0 .. m |-> g[k]]
    OBVIOUS
  <2> HIDE DEF g, Defines
  <2>5. \A k \in 0 .. m : g[k] = IF k = 0 THEN zero ELSE F(g[k - 1], k)
    <3> TAKE k \in 0 .. m
    <3>1. CASE k = m
      <4>1. m # 0 /\ m - 1 \in 0 .. m - 1
        OBVIOUS
      <4> QED  BY <2>3, <3>1, <4>1
    <3>2. CASE k # m
      <4>1. k \in 0 .. m - 1 /\ (k # 0 => k - 1 \in 0 .. m - 1)
        BY <3>2
      <4> QED  BY <2>2, <2>3, <4>1
    <3> QED  BY <3>1, <3>2
  <2>6. Defines(g, m)
    BY <2>4, <2>5 DEF Defines
  <2>7. m \in 0 .. N
    BY <1>1
  <2> QED  BY <2>6, <2>7
<1> HIDE DEF done
<1>5. 0 .. N \subseteq done
  BY <1>1, <1>3, <1>4, BoundedInduction
<1>6. N \in done
  BY <1>1, <1>5
<1> DEFINE g == CHOOSE f : Defines(f, N)
<1>7. Defines(g, N)
  <2> HIDE DEF Defines
  <2> QED  BY <1>6 DEF done
<1> HIDE DEF g
<1>8. \A n \in 0 .. N : g[n] = IF n = 0 THEN zero ELSE F(g[n - 1], n)
  BY <1>7, Zenon
<1>9. g[0] = zero /\ \A n \in 1 .. N : g[n] = F(g[n - 1], n)
  <2>1. 0 \in 0 .. N /\ \A n \in 1 .. N : n \in 0 .. N /\ n # 0
    BY <1>1
  <2> QED  BY <1>8, <2>1
<1>10. TopologicalSort(graph) = g[N]
  BY <1>2 DEF g
<1> QED  BY <1>9, <1>10 DEF N, F, zero

\* Each one comes once, after its parents.
ParentsComeFirst(graph, q) ==
    /\ IsSequence(q) /\ ToSet(q) \subseteq NodeIds(graph)
    /\ \A i, j \in 1 .. Len(q) : q[i] = q[j] => i = j
    /\ \A j \in 1 .. Len(q) : Parents(graph, {q[j]}) \subseteq FirstPart(q, j - 1)

\* The next one is a node whose parents all came.
LEMMA NextIsReady ==
    ASSUME NEW graph, IsGraph(graph), NEW q, ParentsComeFirst(graph, q), NEW i \in ReadyNodes(graph, q),
           NEW x, x = graph.nodes[i].id
    PROVE  ParentsComeFirst(graph, Append(q, x)) /\ Len(Append(q, x)) = Len(q) + 1
<1> DEFINE r == Append(q, x)
<1>1. PICK k \in Nat : k = Len(q) /\ DOMAIN q = 1 .. k /\ \A j \in 1 .. k : q[j] \in ToSet(q)
  BY OwnMembers DEF ParentsComeFirst, IsSequence
<1>2. x \in NodeIds(graph) /\ x \notin ToSet(q) /\ Parents(graph, {x}) \subseteq ToSet(q)
  <2>1. i \in DOMAIN graph.nodes /\ x \notin ToSet(q) /\ ToSet(Inbound(graph, x)) \subseteq ToSet(q)
    BY DEF ReadyNodes
  <2>2. ToSet(Inbound(graph, x)) = Parents(graph, {x})
    BY NeighborsAreLists
  <2> QED  BY <2>1, <2>2 DEF NodeIds, FoundIds
<1>3. IsSequence(r) /\ ToSet(r) = ToSet(q) \cup {x}
  BY AppendOwn DEF ParentsComeFirst
<1>4. Len(r) = k + 1 /\ r[k + 1] = x /\ \A j \in 1 .. k : r[j] = q[j]
  <2>1. q \in Seq(ToSet(q) \cup {x})
    BY DEF ParentsComeFirst, IsSequence
  <2> DEFINE S == ToSet(q) \cup {x}
  <2>2. x \in S
    OBVIOUS
  <2> HIDE DEF S
  <2>3. q \in Seq(S)
    BY <2>1 DEF S
  <2> QED  BY <1>1, <2>2, <2>3, AppendProperties
<1> HIDE DEF r
<1>5. \A j \in 1 .. k + 1 : j \in 1 .. k \/ j = k + 1
  OBVIOUS
<1>6. \A a, b \in 1 .. Len(r) : r[a] = r[b] => a = b
  <2> SUFFICES ASSUME NEW a \in 1 .. k + 1, NEW b \in 1 .. k + 1, r[a] = r[b] PROVE a = b
    BY <1>4
  <2>1. CASE a \in 1 .. k /\ b \in 1 .. k
    BY <1>1, <1>4, <2>1 DEF ParentsComeFirst
  <2>2. CASE a = k + 1 /\ b \in 1 .. k
    BY <1>1, <1>2, <1>4, <2>2
  <2>3. CASE a \in 1 .. k /\ b = k + 1
    BY <1>1, <1>2, <1>4, <2>3
  <2> QED  BY <1>5, <2>1, <2>2, <2>3
<1>7. ASSUME NEW j \in 1 .. Len(r) PROVE Parents(graph, {r[j]}) \subseteq FirstPart(r, j - 1)
  <2>1. CASE j \in 1 .. k
    <3>1. FirstPart(r, j - 1) = FirstPart(q, j - 1)
      <4>1. \A m \in 1 .. j - 1 : m \in 1 .. k
        BY <2>1
      <4>2. \A m \in 1 .. j - 1 : r[m] = q[m]
        BY <1>4, <4>1
      <4> QED  BY <4>2 DEF FirstPart
    <3>2. Parents(graph, {q[j]}) \subseteq FirstPart(q, j - 1)
      BY <1>1, <2>1 DEF ParentsComeFirst
    <3> QED  BY <1>4, <2>1, <3>1, <3>2
  <2>2. CASE j = k + 1
    <3>1. FirstPart(r, j - 1) = ToSet(q)
      <4>1. j - 1 = k
        BY <2>2
      <4> QED  BY <1>1, <1>4, <4>1 DEF FirstPart, ToSet
    <3> QED  BY <1>2, <1>4, <2>2, <3>1
  <2> QED  BY <1>4, <1>5, <2>1, <2>2
<1>8. ToSet(r) \subseteq NodeIds(graph)
  BY <1>2, <1>3 DEF ParentsComeFirst
<1>9. ParentsComeFirst(graph, r)
  BY <1>3, <1>6, <1>7, <1>8 DEF ParentsComeFirst
<1> QED  BY <1>1, <1>4, <1>9 DEF r

\* The sort of a graph without cycles holds each node once, after its parents; of a cyclic one it is empty.
LEMMA SortedParentsFirst ==
    ASSUME NEW graph, IsGraph(graph), ~HasCycles(graph), NEW order, order = TopologicalSort(graph)
    PROVE  ParentsComeFirst(graph, order) /\ ToSet(order) = NodeIds(graph)
<1>1. PICK N \in Nat : N = Len(graph.nodes)
  BY BoundIsNumber DEF IsLimit
<1>2. PICK g : /\ g[0] = <<>> /\ TopologicalSort(graph) = g[N]
               /\ \A n \in 1 .. N : g[n] = Append(g[n - 1], graph.nodes[Min(ReadyNodes(graph, g[n - 1]))].id)
  BY <1>1, SortUnfolds
<1>3. IsFiniteSet(NodeIds(graph)) /\ Cardinality(NodeIds(graph)) = N
  <2>1. IsSequence(<<>>) /\ DistinctIds(<<>>) /\ FoundIds(<<>>) \subseteq NodeIds(graph)
    BY DEF IsSequence, DistinctIds, FoundIds
  <2> QED  BY <1>1, <2>1, FoundAreNodes
<1>4. \A q : ParentsComeFirst(graph, q) => Cardinality(ToSet(q)) = Len(q) /\ Len(q) \in Nat
  <2> TAKE q
  <2> HAVE ParentsComeFirst(graph, q)
  <2>1. q \in Seq(ToSet(q)) /\ \A i, j \in 1 .. Len(q) : q[i] = q[j] => i = j
    BY DEF ParentsComeFirst, IsSequence
  <2> QED  BY <2>1, DistinctCount, LenProperties
<1> DEFINE right == {n \in 0 .. N : ParentsComeFirst(graph, g[n]) /\ Len(g[n]) = n}
<1>5. 0 \in right
  <2>1. ParentsComeFirst(graph, <<>>) /\ Len(<<>>) = 0
    BY DEF ParentsComeFirst, IsSequence, ToSet
  <2> QED  BY <1>2, <2>1
<1>6. ASSUME NEW n \in 1 .. N, n - 1 \in right PROVE n \in right
  <2>1. PICK q : q = g[n - 1]
    OBVIOUS
  <2>2. ParentsComeFirst(graph, q) /\ Len(q) = n - 1
    BY <1>6, <2>1
  <2>3. ToSet(q) \subseteq NodeIds(graph) /\ ToSet(q) # NodeIds(graph)
    <3>1. Cardinality(ToSet(q)) = n - 1
      BY <1>4, <2>2
    <3> QED  BY <1>3, <2>2, <3>1 DEF ParentsComeFirst
  <2>4. PICK left \in NodeIds(graph) : left \notin ToSet(q)
    BY <2>3
  <2>5. PICK i \in ReadyNodes(graph, q) : i = Min(ReadyNodes(graph, q))
    BY <2>4, SomeIsReady
  <2>6. PICK x : x = graph.nodes[i].id
    OBVIOUS
  <2>7. g[n] = Append(q, x)
    BY <1>2, <2>1, <2>5, <2>6
  <2>8. ParentsComeFirst(graph, Append(q, x)) /\ Len(Append(q, x)) = Len(q) + 1
    BY <2>2, <2>6, NextIsReady
  <2>9. ParentsComeFirst(graph, g[n]) /\ Len(g[n]) = n /\ n \in 0 .. N
    BY <2>2, <2>7, <2>8
  <2> QED  BY <2>9
<1> HIDE DEF right
<1>7. 0 .. N \subseteq right /\ N \in 0 .. N
  BY <1>5, <1>6, BoundedInduction
<1>8. ParentsComeFirst(graph, order) /\ Len(order) = N
  BY <1>2, <1>7 DEF right
<1>9. ToSet(order) = NodeIds(graph)
  BY <1>3, <1>4, <1>8, FS_Subset DEF ParentsComeFirst
<1> QED  BY <1>8, <1>9

\* The build order (dependencies/service.ts:59).
LEMMA BuildOrderIs ==
    ASSUME NEW graph, IsGraph(graph), NEW id, HasNode(graph, id), NEW maxDepth, IsLimit(maxDepth)
    PROVE  IsBuildOrder(graph, id, maxDepth, UpstreamBuildOrder(graph, id, maxDepth))
<1> DEFINE wanted == Reached(graph, "upstream", id, Bounded(graph, maxDepth))
           within == Induced(graph, wanted)
           cyclic == \E n \in wanted : n \in Reached(within, "upstream", n, Len(graph.nodes))
           entries == Upstream(graph, id, maxDepth)
           order == TopologicalSort(within)
           built == [i \in DOMAIN order |-> [id |-> order[i], depth |-> DepthOf(entries, order[i])]]
<1>1. FoundIds(entries) = wanted
  BY TraverseReaches DEF Upstream
<1>2. UpstreamBuildOrder(graph, id, maxDepth) = built
  BY <1>1 DEF UpstreamBuildOrder
<1>3. wanted \subseteq NodeIds(graph)
  BY BoundIsNumber, ReachedAreNodes
<1> HIDE DEF entries
<1>4. /\ IsGraph(within) /\ NodeIds(within) = wanted
      /\ ToSet(within.edges) = {e \in ToSet(graph.edges) : e.from \in wanted /\ e.to \in wanted}
  <2> DEFINE g == Induced(graph, wanted)
             kept == {e \in ToSet(graph.edges) : e.from \in wanted /\ e.to \in wanted}
  <2>1. IsGraph(g) /\ NodeIds(g) = NodeIds(graph) \cap wanted /\ ToSet(g.edges) = kept
    <3> HIDE DEF wanted
    <3> QED  BY InducedIs
  <2> HIDE DEF wanted, g
  <2> QED  BY <1>3, <2>1 DEF g
<1>5. cyclic <=> HasCycles(within)
  <2>1. Len(within.nodes) \in Nat /\ Len(graph.nodes) \in Nat /\ Len(within.nodes) <= Len(graph.nodes)
    <3>1. IsSequence(within.nodes) /\ DistinctIds(within.nodes) /\ FoundIds(within.nodes) \subseteq NodeIds(graph)
      <4> HIDE DEF within, wanted
      <4> QED  BY <1>3, <1>4 DEF IsGraph, NodeIds
    <3>2. Len(within.nodes) \in Nat /\ Len(graph.nodes) \in Nat
      <4> HIDE DEF within, wanted
      <4> QED  BY <1>4, BoundIsNumber DEF IsLimit
    <3> HIDE DEF within, wanted
    <3> QED  BY <3>1, <3>2, FoundAreNodes
  <2>2. PICK more \in Nat : Len(graph.nodes) = Len(within.nodes) + more
    <3>1. PICK a \in Nat : a = Len(graph.nodes)
      BY <2>1
    <3>2. PICK b \in Nat : b = Len(within.nodes)
      BY <2>1
    <3>3. a - b \in Nat /\ a = b + (a - b)
      BY <2>1, <3>1, <3>2
    <3> QED  BY <3>1, <3>2, <3>3
  <2> HIDE DEF within, wanted
  <2>3. ASSUME NEW n \in wanted
        PROVE  Reached(within, "upstream", n, Len(graph.nodes)) = AllReached(within, "upstream", n)
    <3>1. HasNode(within, n)
      BY <1>4, HasNodeId
    <3>2. Reached(within, "upstream", n, Len(within.nodes) + more) = Reached(within, "upstream", n, Len(within.nodes))
      BY <1>4, <3>1, WalksEnd
    <3> QED  BY <2>2, <3>2 DEF AllReached
  <2>4. HasCycles(within) <=> \E n \in wanted : n \in AllReached(within, "upstream", n)
    BY <1>4, CyclesAreReached
  <2> QED  BY <2>3, <2>4
<1>6. CASE HasCycles(within)
  <2>1. order = <<>>
    BY <1>6 DEF TopologicalSort
  <2>2. built = <<>>
    BY <2>1
  <2>3. DOMAIN <<>> = {} /\ FoundIds(<<>>) = {} /\ ToSet(<<>>) = {} /\ Len(<<>>) = 0
    BY DEF FoundIds, ToSet
  <2>4. NoneTwice(<<>>)
    BY <2>3, FS_EmptySet DEF NoneTwice
  <2>5. NoneTwice(built) /\ FoundIds(built) = {} /\ DOMAIN built = {}
    BY <2>2, <2>3, <2>4
  <2> HIDE DEF built
  <2> QED  BY <1>2, <1>5, <1>6, <2>5 DEF IsBuildOrder
<1>7. CASE ~HasCycles(within)
  <2>1. ParentsComeFirst(within, order) /\ ToSet(order) = wanted
    <3> HIDE DEF wanted, within
    <3> QED  BY <1>4, <1>7, SortedParentsFirst
  <2> HIDE DEF order
  <2>2. PICK N \in Nat : N = Len(order) /\ DOMAIN order = 1 .. N
    BY <2>1, OwnMembers DEF ParentsComeFirst, IsSequence
  <2>3. /\ built = [i \in 1 .. N |-> built[i]] /\ DOMAIN built = 1 .. N
        /\ \A i \in 1 .. N : built[i].id = order[i]
    BY <2>2
  <2> HIDE DEF built
  <2>4. IsSequence(built) /\ Len(built) = N
    BY <2>3, OfPlaces
  <2>5. \A i, j \in 1 .. N : built[i].id = built[j].id => i = j
    BY <2>1, <2>2, <2>3 DEF ParentsComeFirst
  <2>6. NoneTwice(built)
    <3>1. built \in Seq(ToSet(built)) /\ \A i, j \in 1 .. Len(built) : built[i] = built[j] => i = j
      BY <2>4, <2>5 DEF IsSequence
    <3> QED  BY <3>1, DistinctCount DEF NoneTwice
  <2>7. FoundIds(built) = wanted
    <3>1. FoundIds(built) = {order[i] : i \in 1 .. N}
      BY <2>3 DEF FoundIds
    <3>2. ToSet(order) = {order[i] : i \in 1 .. N}
      BY <2>2 DEF ToSet
    <3> QED  BY <2>1, <3>1, <3>2
  <2>8. ASSUME NEW i \in 1 .. N, NEW j \in 1 .. N, built[i].id \in Parents(graph, {built[j].id})
        PROVE  i < j
    <3>1. order[i] \in wanted /\ order[j] \in wanted /\ order[i] \in Parents(graph, {order[j]})
      <4>1. \A k \in 1 .. N : order[k] \in ToSet(order)
        BY <2>2 DEF ToSet
      <4> QED  BY <2>1, <2>3, <2>8, <4>1
    <3> HIDE DEF wanted, within
    <3>2. order[i] \in Parents(within, {order[j]})
      <4>1. PICK e \in ToSet(graph.edges) : e.from = order[i] /\ e.to = order[j]
        BY <3>1 DEF Parents, ToSet
      <4>2. e \in ToSet(within.edges)
        BY <1>4, <3>1, <4>1
      <4> QED  BY <4>1, <4>2 DEF Parents, ToSet
    <3>3. order[i] \in FirstPart(order, j - 1)
      BY <2>1, <2>2, <3>2 DEF ParentsComeFirst
    <3>4. PICK k \in 1 .. j - 1 : order[k] = order[i]
      BY <3>3 DEF FirstPart
    <3>5. k \in 1 .. N
      BY <3>4
    <3> QED  BY <2>1, <2>2, <3>4, <3>5 DEF ParentsComeFirst
  <2> QED  BY <1>2, <1>5, <1>7, <2>3, <2>6, <2>7, <2>8 DEF IsBuildOrder
<1> QED  BY <1>6, <1>7

-----------------------------------------------------------------------------
(* The tree of a traversal. *)
NothingBelow(ids) == [n \in ids |-> <<>>]
NestedBelow(entries, ids, below) == [n \in ids |-> BuildNodes(entries, n, below)]
Nests(entries, id, ids, g) ==
    /\ g[0] = NothingBelow(ids) /\ Nested(entries, id) = g[Len(entries)][id]
    /\ \A n \in 1 .. Len(entries) : g[n] = NestedBelow(entries, ids, g[n - 1])

\* A tree is one level higher than the trees below its root.
LEMMA NestedUnfolds ==
    ASSUME NEW entries, NEW id, NEW ids, ids = {id} \cup FoundIds(entries), Len(entries) \in Nat
    PROVE  \E g : Nests(entries, id, ids, g)
<1> DEFINE N == Len(entries)
           zero == NothingBelow(ids)
           F(q, n) == NestedBelow(entries, ids, q)
           Defines(f, m) == f = [n \in 0 .. m |-> IF n = 0 THEN zero ELSE F(f[n - 1], n)]
           done == {m \in 0 .. N : \E f : Defines(f, m)}
<1>1. N \in Nat
  OBVIOUS
<1>2. Nested(entries, id) = (CHOOSE f : Defines(f, N))[N][id]
  BY DEF Nested, NothingBelow, NestedBelow
<1> HIDE DEF F, N, zero
<1>3. 0 \in done
  <2> DEFINE f == [n \in 0 .. 0 |-> zero]
  <2>1. Defines(f, 0)
    OBVIOUS
  <2> HIDE DEF Defines, f
  <2> QED  BY <1>1, <2>1
<1>4. ASSUME NEW m \in 1 .. N, m - 1 \in done PROVE m \in done
  <2>1. PICK f : Defines(f, m - 1)
    BY <1>4
  <2>2. \A k \in 0 .. m - 1 : f[k] = IF k = 0 THEN zero ELSE F(f[k - 1], k)
    BY <2>1, Zenon
  <2> DEFINE g == [k \in 0 .. m |-> IF k = m THEN F(f[m - 1], m) ELSE f[k]]
  <2>3. g[m] = F(f[m - 1], m) /\ \A k \in 0 .. m - 1 : g[k] = f[k]
    BY <1>1
  <2>4. g = [k \in 0 .. m |-> g[k]]
    OBVIOUS
  <2> HIDE DEF g, Defines
  <2>5. \A k \in 0 .. m : g[k] = IF k = 0 THEN zero ELSE F(g[k - 1], k)
    <3> TAKE k \in 0 .. m
    <3>1. CASE k = m
      <4>1. m # 0 /\ m - 1 \in 0 .. m - 1
        OBVIOUS
      <4> QED  BY <2>3, <3>1, <4>1
    <3>2. CASE k # m
      <4>1. k \in 0 .. m - 1 /\ (k # 0 => k - 1 \in 0 .. m - 1)
        BY <3>2
      <4> QED  BY <2>2, <2>3, <4>1
    <3> QED  BY <3>1, <3>2
  <2>6. Defines(g, m)
    BY <2>4, <2>5 DEF Defines
  <2>7. m \in 0 .. N
    BY <1>1
  <2> QED  BY <2>6, <2>7
<1> HIDE DEF done
<1>5. 0 .. N \subseteq done
  BY <1>1, <1>3, <1>4, BoundedInduction
<1>6. N \in done
  BY <1>1, <1>5
<1> DEFINE g == CHOOSE f : Defines(f, N)
<1>7. Defines(g, N)
  <2> HIDE DEF Defines
  <2> QED  BY <1>6 DEF done
<1> HIDE DEF g
<1>8. \A n \in 0 .. N : g[n] = IF n = 0 THEN zero ELSE F(g[n - 1], n)
  BY <1>7, Zenon
<1>9. g[0] = zero /\ \A n \in 1 .. N : g[n] = F(g[n - 1], n)
  <2>1. 0 \in 0 .. N /\ \A n \in 1 .. N : n \in 0 .. N /\ n # 0
    BY <1>1
  <2> QED  BY <1>8, <2>1
<1>10. Nested(entries, id) = g[N][id]
  BY <1>2 DEF g
<1> QED  BY <1>9, <1>10 DEF N, F, zero, Nests

\* The levels of a tree, one at a time.
LEMMA LevelUnfolds ==
    ASSUME NEW tree, NEW most, most \in Nat
    PROVE  \E g : /\ g[0] = {[dependencies |-> tree]} /\ Level(tree, most) = g[most]
                  /\ \A n \in 1 .. most : g[n] = UNION {ToSet(t.dependencies) : t \in g[n - 1]}
<1> DEFINE N == most
           zero == {[dependencies |-> tree]}
           F(q, n) == UNION {ToSet(t.dependencies) : t \in q}
           Defines(f, m) == f = [n \in 0 .. m |-> IF n = 0 THEN zero ELSE F(f[n - 1], n)]
           done == {m \in 0 .. N : \E f : Defines(f, m)}
<1>1. N \in Nat
  OBVIOUS
<1>2. Level(tree, most) = (CHOOSE f : Defines(f, N))[N]
  BY DEF Level
<1> HIDE DEF F, N, zero
<1>3. 0 \in done
  <2> DEFINE f == [n \in 0 .. 0 |-> zero]
  <2>1. Defines(f, 0)
    OBVIOUS
  <2> HIDE DEF Defines, f
  <2> QED  BY <1>1, <2>1
<1>4. ASSUME NEW m \in 1 .. N, m - 1 \in done PROVE m \in done
  <2>1. PICK f : Defines(f, m - 1)
    BY <1>4
  <2>2. \A k \in 0 .. m - 1 : f[k] = IF k = 0 THEN zero ELSE F(f[k - 1], k)
    BY <2>1, Zenon
  <2> DEFINE g == [k \in 0 .. m |-> IF k = m THEN F(f[m - 1], m) ELSE f[k]]
  <2>3. g[m] = F(f[m - 1], m) /\ \A k \in 0 .. m - 1 : g[k] = f[k]
    BY <1>1
  <2>4. g = [k \in 0 .. m |-> g[k]]
    OBVIOUS
  <2> HIDE DEF g, Defines
  <2>5. \A k \in 0 .. m : g[k] = IF k = 0 THEN zero ELSE F(g[k - 1], k)
    <3> TAKE k \in 0 .. m
    <3>1. CASE k = m
      <4>1. m # 0 /\ m - 1 \in 0 .. m - 1
        OBVIOUS
      <4> QED  BY <2>3, <3>1, <4>1
    <3>2. CASE k # m
      <4>1. k \in 0 .. m - 1 /\ (k # 0 => k - 1 \in 0 .. m - 1)
        BY <3>2
      <4> QED  BY <2>2, <2>3, <4>1
    <3> QED  BY <3>1, <3>2
  <2>6. Defines(g, m)
    BY <2>4, <2>5 DEF Defines
  <2>7. m \in 0 .. N
    BY <1>1
  <2> QED  BY <2>6, <2>7
<1> HIDE DEF done
<1>5. 0 .. N \subseteq done
  BY <1>1, <1>3, <1>4, BoundedInduction
<1>6. N \in done
  BY <1>1, <1>5
<1> DEFINE g == CHOOSE f : Defines(f, N)
<1>7. Defines(g, N)
  <2> HIDE DEF Defines
  <2> QED  BY <1>6 DEF done
<1> HIDE DEF g
<1>8. \A n \in 0 .. N : g[n] = IF n = 0 THEN zero ELSE F(g[n - 1], n)
  BY <1>7, Zenon
<1>9. g[0] = zero /\ \A n \in 1 .. N : g[n] = F(g[n - 1], n)
  <2>1. 0 \in 0 .. N /\ \A n \in 1 .. N : n \in 0 .. N /\ n # 0
    BY <1>1
  <2> QED  BY <1>8, <2>1
<1>10. Level(tree, most) = g[N]
  BY <1>2 DEF g
<1> QED  BY <1>9, <1>10 DEF N, F, zero

LevelBelow(level) == UNION {ToSet(t.dependencies) : t \in level}

\* Each level is what is nested in the one above.
LEMMA LevelsFollow ==
    ASSUME NEW tree
    PROVE  /\ Level(tree, 0) = {[dependencies |-> tree]}
           /\ \A n \in Nat : Level(tree, n + 1) = LevelBelow(Level(tree, n))
<1>0. \A m \in Nat : \E g : /\ g[0] = {[dependencies |-> tree]} /\ Level(tree, m) = g[m]
                            /\ \A k \in 1 .. m : g[k] = LevelBelow(g[k - 1])
  <2> TAKE m \in Nat
  <2>1. PICK r : r = Level(tree, m)
    OBVIOUS
  <2>2. PICK g : /\ g[0] = {[dependencies |-> tree]} /\ Level(tree, m) = g[m]
                 /\ \A k \in 1 .. m : g[k] = UNION {ToSet(t.dependencies) : t \in g[k - 1]}
    BY <2>1, LevelUnfolds
  <2>3. \A k \in 1 .. m : g[k] = LevelBelow(g[k - 1])
    BY <2>2 DEF LevelBelow
  <2> QED  BY <2>2, <2>3
<1>1. Level(tree, 0) = {[dependencies |-> tree]}
  <2>1. PICK m : m = 0 /\ m \in Nat
    OBVIOUS
  <2>2. \E g : g[0] = {[dependencies |-> tree]} /\ Level(tree, m) = g[m]
    BY <1>0, <2>1
  <2> QED  BY <2>1, <2>2
<1>2. ASSUME NEW n \in Nat PROVE Level(tree, n + 1) = LevelBelow(Level(tree, n))
  <2>1. PICK g : /\ g[0] = {[dependencies |-> tree]} /\ Level(tree, n) = g[n]
                 /\ \A k \in 1 .. n : g[k] = LevelBelow(g[k - 1])
    BY <1>0
  <2>2. PICK h : /\ h[0] = {[dependencies |-> tree]} /\ Level(tree, n + 1) = h[n + 1]
                 /\ \A k \in 1 .. n + 1 : h[k] = LevelBelow(h[k - 1])
    <3>1. PICK m : m = n + 1 /\ m \in Nat
      OBVIOUS
    <3>2. \E h : /\ h[0] = {[dependencies |-> tree]} /\ Level(tree, m) = h[m]
                 /\ \A k \in 1 .. m : h[k] = LevelBelow(h[k - 1])
      BY <1>0, <3>1
    <3> QED  BY <3>1, <3>2
  <2> DEFINE same == {k \in 0 .. n : g[k] = h[k]}
  <2>3. 0 \in same
    <3>1. g[0] = h[0]
      BY <2>1, <2>2, Zenon
    <3> QED  BY <3>1
  <2>4. ASSUME NEW k \in 1 .. n, k - 1 \in same PROVE k \in same
    <3>1. k \in 1 .. n + 1 /\ k \in 0 .. n /\ g[k - 1] = h[k - 1]
      BY <2>4
    <3>2. g[k] = LevelBelow(g[k - 1])
      BY <2>1
    <3>3. h[k] = LevelBelow(h[k - 1])
      BY <2>2, <3>1
    <3> QED  BY <3>1, <3>2, <3>3
  <2> HIDE DEF same
  <2>5. 0 .. n \subseteq same /\ n \in 0 .. n
    BY <2>3, <2>4, BoundedInduction
  <2>6. g[n] = h[n]
    BY <2>5 DEF same
  <2>7. h[n + 1] = LevelBelow(h[n])
    <3>1. n + 1 \in 1 .. n + 1 /\ (n + 1) - 1 = n
      OBVIOUS
    <3> QED  BY <2>2, <3>1
  <2> QED  BY <2>1, <2>2, <2>6, <2>7
<1> QED  BY <1>1, <1>2

\* An entry as a node of the tree, with what is nested below it.
NodeOf(e, below) == [id |-> e.id, depth |-> e.depth, dependencies |-> below[e.id]]
WithParent(f, n) == {e \in ToSet(f) : e.parent = n}
AtDepth(f, k) == {e \in ToSet(f) : e.depth = k}
NodesOf(entries, below) == {NodeOf(e, below) : e \in entries}

\* The nodes built of the entries found from a node.
LEMMA BuiltNodes ==
    ASSUME NEW f, IsSequence(f), NEW n, NEW below
    PROVE  ToSet(BuildNodes(f, n, below)) = NodesOf(WithParent(f, n), below)
<1> DEFINE children == ChildrenOf(f, n)
<1>1. IsSequence(children) /\ ToSet(children) = WithParent(f, n)
  <2> DEFINE kept == {e \in ToSet(f) : e.parent = n}
  <2>1. children = Only(f, kept) /\ kept = WithParent(f, n)
    BY DEF ChildrenOf, WithParent
  <2>2. ToSet(f) \cap kept = kept
    OBVIOUS
  <2> HIDE DEF kept
  <2> QED  BY <2>1, <2>2, OnlyOwn
<1>2. BuildNodes(f, n, below) = [i \in DOMAIN children |-> NodeOf(children[i], below)]
  BY DEF BuildNodes, NodeOf
<1> HIDE DEF children
<1>3. ToSet([i \in DOMAIN children |-> NodeOf(children[i], below)])
          = {NodeOf(children[i], below) : i \in DOMAIN children}
  BY DEF ToSet
<1>4. ToSet(children) = {children[i] : i \in DOMAIN children}
  BY DEF ToSet
<1> QED  BY <1>1, <1>2, <1>3, <1>4 DEF NodesOf

\* A traversal that does not come back to its root: what it found, by depth.
LEMMA ParentsAreNearer ==
    ASSUME NEW V, NEW f \in Seq(FoundIn(V)), DistinctIds(f), NEW adj, NEW root, AreParented(adj, root, f),
           root \notin FoundIds(f)
    PROVE  /\ WithParent(f, root) = AtDepth(f, 1)
           /\ \A k \in Nat \ {0} : AtDepth(f, k + 1) = UNION {WithParent(f, e.id) : e \in AtDepth(f, k)}
           /\ \A e \in ToSet(f) : e.id \in adj[e.parent]
<1>1. /\ Len(f) \in Nat /\ DOMAIN f = 1 .. Len(f) /\ \A i \in 1 .. Len(f) : f[i] \in FoundIn(V)
      /\ FoundIds(f) = {f[i].id : i \in 1 .. Len(f)}
  BY FoundOf
<1>2. ToSet(f) = {f[i] : i \in 1 .. Len(f)}
  BY <1>1 DEF ToSet
<1>3. \A e \in ToSet(f) : /\ e.id # root /\ e.depth \in Nat \ {0} /\ e.id \in adj[e.parent]
                          /\ \/ e.depth = 1 /\ e.parent = root
                             \/ \E d \in ToSet(f) : d.id = e.parent /\ d.depth = e.depth - 1
  <2> TAKE e \in ToSet(f)
  <2>1. PICK i \in 1 .. Len(f) : e = f[i]
    BY <1>2
  <2>2. e.id # root /\ e.depth \in Nat \ {0}
    BY <1>1, <2>1 DEF FoundIn
  <2>3. /\ e.id \in adj[e.parent]
        /\ \/ e.depth = 1 /\ e.parent = root
           \/ \E j \in 1 .. Len(f) : f[j].id = e.parent /\ f[j].depth = e.depth - 1
    BY <2>1 DEF AreParented
  <2> QED  BY <1>2, <2>2, <2>3
<1>4. \A d, e \in ToSet(f) : d.id = e.id => d = e
  BY <1>2 DEF DistinctIds
<1>5. WithParent(f, root) = AtDepth(f, 1)
  <2>1. ASSUME NEW e \in ToSet(f), e.parent = root PROVE e.depth = 1
    BY <1>3, <2>1
  <2>2. ASSUME NEW e \in ToSet(f), e.depth = 1 PROVE e.parent = root
    <3>1. ASSUME NEW d \in ToSet(f), d.depth = e.depth - 1 PROVE FALSE
      BY <1>3, <2>2, <3>1
    <3> QED  BY <1>3, <3>1
  <2> QED  BY <2>1, <2>2 DEF WithParent, AtDepth
<1>6. ASSUME NEW k \in Nat \ {0} PROVE AtDepth(f, k + 1) = UNION {WithParent(f, e.id) : e \in AtDepth(f, k)}
  <2>1. ASSUME NEW e \in AtDepth(f, k + 1) PROVE \E d \in AtDepth(f, k) : e \in WithParent(f, d.id)
    <3>1. e \in ToSet(f) /\ e.depth = k + 1 /\ e.depth # 1 /\ e.depth - 1 = k
      BY DEF AtDepth
    <3>2. PICK d \in ToSet(f) : d.id = e.parent /\ d.depth = e.depth - 1
      BY <1>3, <3>1
    <3> QED  BY <3>1, <3>2 DEF AtDepth, WithParent
  <2>2. ASSUME NEW d \in AtDepth(f, k), NEW e \in WithParent(f, d.id) PROVE e \in AtDepth(f, k + 1)
    <3>1. d \in ToSet(f) /\ d.depth = k /\ e \in ToSet(f) /\ e.parent = d.id /\ d.id # root
      BY <1>3 DEF AtDepth, WithParent
    <3>2. PICK c \in ToSet(f) : c.id = e.parent /\ c.depth = e.depth - 1
      BY <1>3, <3>1
    <3>3. c = d /\ e.depth \in Nat
      BY <1>3, <1>4, <3>1, <3>2
    <3>4. e.depth = k + 1
      BY <3>1, <3>2, <3>3
    <3> QED  BY <3>1, <3>4 DEF AtDepth
  <2> QED  BY <2>1, <2>2
<1> QED  BY <1>3, <1>5, <1>6

\* The levels of a tree are the entries of that depth, each above what was found from it.
LEMMA TreeHasLevels ==
    ASSUME NEW V, NEW f \in Seq(FoundIn(V)), DistinctIds(f), NEW adj, NEW root, AreParented(adj, root, f),
           root \notin FoundIds(f), NEW tree, tree = Nested(f, root)
    PROVE  \E g : \A k \in 1 .. Len(f) :
               /\ Level(tree, k) = NodesOf(AtDepth(f, k), g[Len(f) - k])
               /\ \A e \in ToSet(f) :
                      ToSet(g[Len(f) - k][e.id])
                          = IF Len(f) - k = 0 THEN {} ELSE NodesOf(WithParent(f, e.id), g[Len(f) - k - 1])
<1>1. PICK M \in Nat : M = Len(f) /\ DOMAIN f = 1 .. M
  BY FoundOf
<1>2. PICK ids : ids = {root} \cup FoundIds(f)
  OBVIOUS
<1>3. PICK g : /\ g[0] = NothingBelow(ids) /\ Nested(f, root) = g[M][root]
               /\ \A n \in 1 .. M : g[n] = NestedBelow(f, ids, g[n - 1])
  <2>1. Len(f) \in Nat
    BY <1>1
  <2>2. PICK g : Nests(f, root, ids, g)
    BY <1>2, <2>1, NestedUnfolds
  <2> QED  BY <1>1, <2>2 DEF Nests
<1>4. root \in ids /\ \A e \in ToSet(f) : e.id \in ids
  BY <1>2 DEF ToSet, FoundIds
<1>5. IsSequence(f)
  BY OwnMembers
<1>6. /\ \A x \in ids : ToSet(g[0][x]) = {}
      /\ \A n \in 1 .. M : \A x \in ids : ToSet(g[n][x]) = NodesOf(WithParent(f, x), g[n - 1])
  <2>1. \A x \in ids : ToSet(g[0][x]) = {}
    <3>1. ToSet(<<>>) = {}
      BY DEF ToSet
    <3>2. \A x \in ids : g[0][x] = <<>>
      BY <1>3 DEF NothingBelow
    <3> QED  BY <3>1, <3>2
  <2>2. ASSUME NEW n \in 1 .. M, NEW x \in ids PROVE ToSet(g[n][x]) = NodesOf(WithParent(f, x), g[n - 1])
    <3>1. g[n][x] = BuildNodes(f, x, g[n - 1])
      BY <1>3 DEF NestedBelow
    <3>2. PICK below : below = g[n - 1]
      OBVIOUS
    <3>3. ToSet(BuildNodes(f, x, below)) = NodesOf(WithParent(f, x), below)
      BY <1>5, BuiltNodes
    <3> QED  BY <3>1, <3>2, <3>3
  <2> QED  BY <2>1, <2>2
<1>7. /\ WithParent(f, root) = AtDepth(f, 1)
      /\ \A k \in Nat \ {0} : AtDepth(f, k + 1) = UNION {WithParent(f, e.id) : e \in AtDepth(f, k)}
  BY ParentsAreNearer
<1>8. /\ Level(tree, 0) = {[dependencies |-> tree]}
      /\ \A n \in Nat : Level(tree, n + 1) = LevelBelow(Level(tree, n))
  BY LevelsFollow
<1>9. \A k \in 1 .. M : k - 1 \in Nat /\ (k - 1) + 1 = k
  OBVIOUS
<1> DEFINE right == {k \in 0 .. M : k > 0 => Level(tree, k) = NodesOf(AtDepth(f, k), g[M - k])}
<1>10. 0 \in right
  OBVIOUS
<1>11. ASSUME NEW k \in 1 .. M, k - 1 \in right PROVE k \in right
  <2>1. Level(tree, k) = LevelBelow(Level(tree, k - 1))
    BY <1>8, <1>9
  <2>2. CASE k = 1
    <3>1. Level(tree, k - 1) = {[dependencies |-> tree]}
      BY <1>8, <2>2
    <3>2. LevelBelow({[dependencies |-> tree]}) = ToSet(tree)
      BY DEF LevelBelow
    <3>3. M \in 1 .. M /\ M - k = M - 1
      BY <2>2
    <3>4. ToSet(tree) = NodesOf(WithParent(f, root), g[M - 1])
      <4>1. tree = g[M][root]
        BY <1>3
      <4> QED  BY <1>4, <1>6, <3>3, <4>1
    <3>5. Level(tree, k) = NodesOf(AtDepth(f, k), g[M - k])
      BY <1>7, <2>1, <2>2, <3>1, <3>2, <3>3, <3>4
    <3>6. k \in 0 .. M
      OBVIOUS
    <3> QED  BY <3>5, <3>6
  <2>3. CASE k # 1
    <3>1. PICK j \in Nat \ {0} : j = k - 1 /\ j + 1 = k /\ M - j \in 1 .. M /\ (M - j) - 1 = M - k
      BY <2>3
    <3>2. Level(tree, j) = NodesOf(AtDepth(f, j), g[M - j])
      BY <1>11, <3>1
    <3>3. ASSUME NEW e \in AtDepth(f, j)
          PROVE  ToSet(NodeOf(e, g[M - j]).dependencies) = NodesOf(WithParent(f, e.id), g[M - k])
      <4>1. e.id \in ids
        BY <1>4 DEF AtDepth
      <4>2. ToSet(g[M - j][e.id]) = NodesOf(WithParent(f, e.id), g[(M - j) - 1])
        BY <1>6, <3>1, <4>1
      <4>3. NodeOf(e, g[M - j]).dependencies = g[M - j][e.id]
        BY DEF NodeOf
      <4> QED  BY <3>1, <4>2, <4>3
    <3>4. LevelBelow(NodesOf(AtDepth(f, j), g[M - j]))
              = UNION {NodesOf(WithParent(f, e.id), g[M - k]) : e \in AtDepth(f, j)}
      <4>1. LevelBelow(NodesOf(AtDepth(f, j), g[M - j]))
                = UNION {ToSet(NodeOf(e, g[M - j]).dependencies) : e \in AtDepth(f, j)}
        BY DEF LevelBelow, NodesOf
      <4>2. {ToSet(NodeOf(e, g[M - j]).dependencies) : e \in AtDepth(f, j)}
                = {NodesOf(WithParent(f, e.id), g[M - k]) : e \in AtDepth(f, j)}
        BY <3>3
      <4> QED  BY <4>1, <4>2
    <3>5. UNION {NodesOf(WithParent(f, e.id), g[M - k]) : e \in AtDepth(f, j)}
              = NodesOf(UNION {WithParent(f, e.id) : e \in AtDepth(f, j)}, g[M - k])
      BY DEF NodesOf
    <3>6. AtDepth(f, k) = UNION {WithParent(f, e.id) : e \in AtDepth(f, j)}
      BY <1>7, <3>1
    <3>7. Level(tree, k) = NodesOf(AtDepth(f, k), g[M - k])
      BY <2>1, <3>1, <3>2, <3>4, <3>5, <3>6
    <3>8. k \in 0 .. M
      OBVIOUS
    <3> QED  BY <3>7, <3>8
  <2> QED  BY <2>2, <2>3
<1> HIDE DEF right
<1>12. 0 .. M \subseteq right
  BY <1>10, <1>11, BoundedInduction
<1>13. \A k \in 1 .. M : Level(tree, k) = NodesOf(AtDepth(f, k), g[M - k])
  <2> TAKE k \in 1 .. M
  <2>1. k \in right /\ k > 0
    BY <1>12
  <2> QED  BY <2>1 DEF right
<1>14. ASSUME NEW k \in 1 .. M, NEW e \in ToSet(f)
       PROVE  ToSet(g[M - k][e.id]) = IF M - k = 0 THEN {} ELSE NodesOf(WithParent(f, e.id), g[M - k - 1])
  <2>1. e.id \in ids
    BY <1>4
  <2>2. M - k = 0 \/ M - k \in 1 .. M
    OBVIOUS
  <2> QED  BY <1>6, <2>1, <2>2
<1> QED  BY <1>1, <1>13, <1>14

\* The tree (dependencies/service.ts:59).
LEMMA TreeIs ==
    ASSUME NEW graph, IsGraph(graph), NEW root, HasNode(graph, root),
           NEW direction \in {"upstream", "downstream"}, NEW maxDepth, IsLimit(maxDepth)
    PROVE  IsTree(graph, root, direction, maxDepth, GetDependenciesTree(graph, root, direction, maxDepth))
<1> DEFINE found == Reached(graph, direction, root, Bounded(graph, maxDepth))
           adj == NextTo(graph, direction)
           f == Entries(graph, root, direction, maxDepth)
           tree == GetDependenciesTree(graph, root, direction, maxDepth)
<1>1. /\ f \in Seq(FoundIn(NodeIds(graph))) /\ DistinctIds(f) /\ AreParented(adj, root, f)
      /\ AreBounded(maxDepth, f) /\ FoundIds(f) = found
      /\ \A i \in DOMAIN f : IsDistance(graph, direction, root, f[i])
  <2>1. f = Traverse(graph, root, maxDepth, direction)
    BY EntriesReach
  <2> HIDE DEF f
  <2> QED  BY <2>1, TraverseReaches DEF AreDistances
<1>2. tree = IF root \in FoundIds(f) THEN Endless ELSE Nested(f, root)
  BY DEF GetDependenciesTree
<1> HIDE DEF f, tree, adj
<1>3. /\ Len(f) \in Nat /\ DOMAIN f = 1 .. Len(f) /\ \A i \in 1 .. Len(f) : f[i] \in FoundIn(NodeIds(graph))
      /\ FoundIds(f) = {f[i].id : i \in 1 .. Len(f)} /\ IsSequence(f)
  BY <1>1, FoundOf, OwnMembers
<1>4. CASE root \in found
  BY <1>1, <1>2, <1>4 DEF IsTree, tree
<1>5. CASE root \notin found
  <2>1. root \notin FoundIds(f) /\ tree = Nested(f, root)
    BY <1>1, <1>2, <1>5
  <2>2. PICK M \in Nat : M = Len(f)
    BY <1>3
  <2>3. PICK g : \A k \in 1 .. M :
            /\ Level(tree, k) = NodesOf(AtDepth(f, k), g[M - k])
            /\ \A e \in ToSet(f) :
                   ToSet(g[M - k][e.id])
                       = IF M - k = 0 THEN {} ELSE NodesOf(WithParent(f, e.id), g[M - k - 1])
    BY <1>1, <2>1, <2>2, TreeHasLevels
  <2>4. Cardinality(found) = M
    <3>1. FoundIds(f) \subseteq NodeIds(graph)
      BY <1>3 DEF FoundIn
    <3> QED  BY <1>1, <1>3, <2>2, <3>1, FoundAreNodes
  <2>5. \A e \in ToSet(f) : /\ e.depth \in 1 .. M /\ IsDistance(graph, direction, root, e)
                            /\ e.id \in found /\ e.id \in NodeIds(graph)
    <3>1. \A i \in 1 .. M : f[i].depth \in Nat \ {0} /\ f[i].depth <= i /\ f[i].id \in found /\ f[i].id \in NodeIds(graph)
      BY <1>1, <1>3, <2>2 DEF AreBounded, FoundIn
    <3>2. \A i \in 1 .. M : f[i].depth \in 1 .. M
      BY <3>1
    <3> QED  BY <1>1, <1>3, <2>2, <3>1, <3>2 DEF ToSet
  <2>6. \A e \in ToSet(f) : e.id \in adj[e.parent]
    BY <1>1, <2>1, ParentsAreNearer
  <2>7. \A k \in 1 .. M : \A t \in Level(tree, k) :
            \E e \in AtDepth(f, k) : t = NodeOf(e, g[M - k])
    BY <2>3 DEF NodesOf
  <2>8. ASSUME NEW k \in 1 .. M, NEW t \in Level(tree, k)
        PROVE  /\ IsDistance(graph, direction, root, t) /\ t.depth = k /\ t.id \in found
               /\ \A c \in ToSet(t.dependencies) : c.id \in Steps(graph, direction, {t.id})
    <3>1. PICK e \in AtDepth(f, k) : t = NodeOf(e, g[M - k])
      BY <2>7
    <3>2. /\ t.id = e.id /\ t.depth = e.depth /\ t.dependencies = g[M - k][e.id]
          /\ e \in ToSet(f) /\ e.depth = k
      BY <3>1 DEF NodeOf, AtDepth
    <3>3. IsDistance(graph, direction, root, t)
      BY <2>5, <3>2 DEF IsDistance
    <3>4. ASSUME NEW c \in ToSet(t.dependencies) PROVE c.id \in Steps(graph, direction, {t.id})
      <4>1. c \in NodesOf(WithParent(f, e.id), g[M - k - 1])
        BY <2>3, <3>2
      <4>2. PICK d \in WithParent(f, e.id) : c = NodeOf(d, g[M - k - 1])
        BY <4>1 DEF NodesOf
      <4>3. c.id = d.id /\ d \in ToSet(f) /\ d.parent = e.id
        BY <4>2 DEF NodeOf, WithParent
      <4>4. d.id \in adj[e.id]
        BY <2>6, <4>3
      <4>5. adj[e.id] = Steps(graph, direction, {e.id})
        BY <2>5, <3>2 DEF adj, NextTo
      <4> QED  BY <3>2, <4>3, <4>4, <4>5
    <3> QED  BY <2>5, <3>2, <3>3, <3>4
  <2>9. found = UNION {{t.id : t \in Level(tree, k)} : k \in 1 .. M}
    <3>1. ASSUME NEW x \in found PROVE \E k \in 1 .. M : \E t \in Level(tree, k) : t.id = x
      <4>1. PICK i \in 1 .. M : f[i].id = x
        BY <1>1, <1>3, <2>2
      <4>2. PICK e : e = f[i] /\ e \in ToSet(f)
        BY <1>3, <2>2 DEF ToSet
      <4>3. PICK k \in 1 .. M : k = e.depth
        BY <2>5, <4>2
      <4>4. e \in AtDepth(f, k)
        BY <4>2, <4>3 DEF AtDepth
      <4>5. NodeOf(e, g[M - k]) \in Level(tree, k)
        BY <2>3, <4>4 DEF NodesOf
      <4>6. NodeOf(e, g[M - k]).id = x
        BY <4>1, <4>2 DEF NodeOf
      <4> QED  BY <4>5, <4>6
    <3> DEFINE IdsAt(k) == {t.id : t \in Level(tree, k)}
    <3>2. \A k \in 1 .. M : IdsAt(k) \subseteq found
      BY <2>8
    <3>3. \A x \in found : \E k \in 1 .. M : x \in IdsAt(k)
      BY <3>1
    <3> HIDE DEF IdsAt
    <3>4. found = UNION {IdsAt(k) : k \in 1 .. M}
      BY <3>2, <3>3
    <3> QED  BY <3>4 DEF IdsAt
  <2>10. tree # Endless
    <3> SUFFICES ASSUME tree = Endless PROVE FALSE
      OBVIOUS
    <3>1. PICK e0 : e0 = [id |-> <<>>, depth |-> 0, dependencies |-> <<>>]
      OBVIOUS
    <3>2. ToSet(tree) = {e0}
      <4>1. tree = <<e0>>
        BY <3>1 DEF Endless
      <4> QED  BY <4>1 DEF ToSet
    <3>3. Level(tree, 1) = ToSet(tree)
      <4>1. Level(tree, 0) = {[dependencies |-> tree]} /\ 0 \in Nat /\ 0 + 1 = 1
        BY LevelsFollow
      <4>2. Level(tree, 0 + 1) = LevelBelow(Level(tree, 0))
        BY <4>1, LevelsFollow
      <4>3. LevelBelow({[dependencies |-> tree]}) = ToSet(tree)
        BY DEF LevelBelow
      <4> QED  BY <4>1, <4>2, <4>3
    <3>4. CASE M = 0
      <4>1. tree = <<>>
        <5>1. PICK ids : ids = {root} \cup FoundIds(f)
          OBVIOUS
        <5>2. PICK r : r = Nested(f, root)
          OBVIOUS
        <5>3. PICK h : h[0] = NothingBelow(ids) /\ r = h[Len(f)][root]
          <6>1. Len(f) \in Nat
            BY <2>2, <3>4
          <6>2. PICK q : Nests(f, root, ids, q)
            BY <5>1, <6>1, NestedUnfolds
          <6> QED  BY <5>2, <6>2 DEF Nests
        <5>4. root \in ids /\ Len(f) = 0
          BY <2>2, <3>4, <5>1
        <5>5. h[0][root] = <<>>
          BY <5>3, <5>4 DEF NothingBelow
        <5> QED  BY <2>1, <5>2, <5>3, <5>4, <5>5
      <4> QED  BY <3>2, <4>1 DEF ToSet
    <3>5. CASE M # 0
      <4>1. e0 \in Level(tree, 1) /\ 1 \in 1 .. M /\ e0.depth = 0
        BY <3>1, <3>2, <3>3, <3>5
      <4>2. \A t \in Level(tree, 1) : t.depth = 1
        BY <2>8, <4>1
      <4> QED  BY <4>1, <4>2
    <3> QED  BY <3>4, <3>5
  <2> QED  BY <1>5, <2>4, <2>8, <2>9, <2>10 DEF IsTree, tree
<1> QED  BY <1>4, <1>5

-----------------------------------------------------------------------------
(* The answers about dependencies.  Flat, in build order, or as a tree. *)
LEMMA DependencyAnswer ==
    ASSUME NEW graph, IsGraph(graph), NEW id \in NodeIds(graph), NEW columns, NEW analyses,
           NEW direction \in {"upstream", "downstream"}, NEW depth, IsLimit(depth),
           NEW tree \in BOOLEAN, NEW buildOrder \in BOOLEAN, NEW options,
           options = [direction |-> direction, depth |-> depth, tree |-> tree, buildOrder |-> buildOrder]
    PROVE  AreDependencies(graph, id, options, Deps(graph, id, 0, columns, analyses, options))
<1> DEFINE given == Deps(graph, id, 0, columns, analyses, options)
<1>1. /\ options.direction = direction /\ options.depth = depth
      /\ options.tree = tree /\ options.buildOrder = buildOrder
  OBVIOUS
<1>2. HasNode(graph, id)
  BY HasNodeId
<1>3. given = CASE direction = "downstream" /\ buildOrder -> Refused
                [] tree /\ ~buildOrder -> GetDependenciesTree(graph, id, direction, depth)
                [] OTHER -> GetDependencies(graph, id, direction, depth, buildOrder)
  BY <1>1 DEF Deps
<1> HIDE DEF given
<1> SUFFICES AreDependencies(graph, id, options, given)
  BY DEF given
<1>4. CASE direction = "downstream" /\ buildOrder
  <2>1. given = Refused
    BY <1>3, <1>4
  <2> QED  BY <1>1, <1>4, <2>1 DEF AreDependencies
<1>5. CASE direction = "upstream" /\ buildOrder
  <2>1. given = UpstreamBuildOrder(graph, id, depth)
    <3>1. given = GetDependencies(graph, id, direction, depth, buildOrder)
      BY <1>3, <1>5
    <3> QED  BY <1>5, <3>1 DEF GetDependencies
  <2>2. IsBuildOrder(graph, id, depth, given)
    BY <1>2, <2>1, BuildOrderIs
  <2> QED  BY <1>1, <1>5, <2>2 DEF AreDependencies
<1>6. CASE tree /\ ~buildOrder
  <2>1. given = GetDependenciesTree(graph, id, direction, depth)
    BY <1>3, <1>6
  <2>2. IsTree(graph, id, direction, depth, given)
    BY <1>2, <2>1, TreeIs
  <2> QED  BY <1>1, <1>6, <2>2 DEF AreDependencies
<1>7. CASE ~tree /\ ~buildOrder
  <2>1. given = Entries(graph, id, direction, depth)
    <3>1. given = GetDependencies(graph, id, direction, depth, buildOrder)
      BY <1>3, <1>7
    <3> QED  BY <1>7, <3>1 DEF GetDependencies
  <2>2. AreDistances(graph, id, direction, depth, given)
    BY <2>1, EntriesReach
  <2> QED  BY <1>1, <1>7, <2>2 DEF AreDependencies
<1> QED  BY <1>4, <1>5, <1>6, <1>7

(* What an answer of each kind is. *)
FollowsEdges(kind, asked, given) ==
    CASE kind = "dependencies" -> AreDependencies(Graph, asked[1], asked[2], given)
      [] kind = "field" -> AreDependencies(FieldGraph, asked[1], asked[2], given)
      [] kind = "subgraph" -> IsSubgraph(asked, given)
      [] kind = "impact" ->
             LET size == Len(Graph.nodes)
             IN /\ given.upstream = Cardinality(Reached(Graph, "upstream", asked, size))
                /\ given.downstream = Cardinality(Reached(Graph, "downstream", asked, size))
                /\ ToSet(given.critical) \subseteq Reached(Graph, "downstream", asked, size)
      [] OTHER -> TRUE
ReachableInv ==
    /\ scene = "questions" => bundle \in Bundles
    /\ FollowsEdges(answer.kind, answer.asked, answer.given)

\* The graph of a bundle.
LEMMA BundleHasGraph ==
    ASSUME bundle \in Bundles
    PROVE  IsGraph(Graph) /\ AreColumns(bundle.columns) /\ AreDerivations(bundle.analyses)
BY BundlesAreRuns, BuiltIsGraph DEF Graph

\* Each question is answered along the edges.
LEMMA AskedFollowsEdges ==
    ASSUME ReachableInv, QuestionsNext, NEW kind, NEW asked, NEW given, Answers(kind, asked, given)
    PROVE  FollowsEdges(kind, asked, given)
<1>1. answer'.kind = kind /\ answer'.asked = asked /\ answer'.given = given
  BY KindOfAnswer
<1>2. CASE AskDependencies
  <2>1. bundle \in Bundles
    BY <1>2 DEF ReachableInv, AskDependencies, Asks
  <2>2. PICK id \in NodeIds(Graph), direction \in {"upstream", "downstream"}, depth \in QueryDepths,
             tree \in BOOLEAN, buildOrder \in BOOLEAN :
            \E o : /\ o = [direction |-> direction, depth |-> depth, tree |-> tree, buildOrder |-> buildOrder]
                  /\ Answers("dependencies", <<id, o>>,
                             Deps(Graph, id, 0, bundle.columns, bundle.analyses, o))
    BY <1>2 DEF AskDependencies
  <2> PICK options :
            /\ options = [direction |-> direction, depth |-> depth, tree |-> tree, buildOrder |-> buildOrder]
            /\ Answers("dependencies", <<id, options>>,
                       Deps(Graph, id, 0, bundle.columns, bundle.analyses, options))
    BY <2>2
  <2>3. /\ kind = "dependencies" /\ asked = <<id, options>>
        /\ given = Deps(Graph, id, 0, bundle.columns, bundle.analyses, options)
    BY <1>1, <2>2, KindOfAnswer
  <2>4. IsLimit(depth)
    BY DepthsArePositive DEF IsLimit
  <2>5. AreDependencies(Graph, id, options, given)
    BY <2>1, <2>2, <2>3, <2>4, BundleHasGraph, DependencyAnswer
  <2> QED  BY <2>3, <2>5 DEF FollowsEdges
<1>3. CASE AskFieldDependencies
  <2>1. bundle \in Bundles
    BY <1>3 DEF ReachableInv, AskFieldDependencies, Asks
  <2>2. PICK row \in ToSet(bundle.columns), direction \in {"upstream", "downstream"} :
            \E column \in ToSet(row.columns) :
            \E o : /\ o = [direction |-> direction, depth |-> Unlimited, tree |-> FALSE, buildOrder |-> FALSE]
                  /\ Answers("field", <<FieldId(row.id, column), o>>,
                             Deps(Graph, row.id, column, bundle.columns, bundle.analyses, o))
    BY <1>3 DEF AskFieldDependencies
  <2> PICK column \in ToSet(row.columns), options \in {[direction |-> direction, depth |-> Unlimited,
                                                        tree |-> FALSE, buildOrder |-> FALSE]} :
            Answers("field", <<FieldId(row.id, column), options>>,
                    Deps(Graph, row.id, column, bundle.columns, bundle.analyses, options))
    BY <2>2
  <2>3. /\ kind = "field" /\ asked = <<FieldId(row.id, column), options>>
        /\ given = Deps(Graph, row.id, column, bundle.columns, bundle.analyses, options)
    BY <1>1, <2>2, KindOfAnswer
  <2>4. AreDependencies(FieldGraph, FieldId(row.id, column), options, given)
    BY <2>1, <2>2, <2>3, BundleHasGraph, FieldAnswer DEF FieldGraph
  <2> QED  BY <2>3, <2>4 DEF FollowsEdges
<1>4. CASE AskSubgraph
  <2>1. bundle \in Bundles
    BY <1>4 DEF ReachableInv, AskSubgraph, Asks
  <2>2. PICK id \in NodeIds(Graph), direction \in {"upstream", "downstream", "both"},
             depth \in QueryDepths, types \in {KnownTypes, {"model"}} :
            Answers("subgraph", [id |-> id, direction |-> direction, depth |-> depth, types |-> types],
                    Subgraph(Graph, id, direction, depth, types))
    BY <1>4 DEF AskSubgraph
  <2> PICK question : question = [id |-> id, direction |-> direction, depth |-> depth, types |-> types]
    OBVIOUS
  <2>3. kind = "subgraph" /\ asked = question /\ given = Subgraph(Graph, id, direction, depth, types)
    BY <1>1, <2>2, KindOfAnswer
  <2>4. IsLimit(depth)
    BY DepthsArePositive DEF IsLimit
  <2>5. IsSubgraph(asked, given)
    BY <2>1, <2>2, <2>3, <2>4, BundleHasGraph, SubgraphAnswer
  <2> QED  BY <2>3, <2>5 DEF FollowsEdges
<1>5. CASE AskImpact
  <2>1. bundle \in Bundles
    BY <1>5 DEF ReachableInv, AskImpact, Asks
  <2>2. PICK id \in NodeIds(Graph) : Answers("impact", id, Impact(Graph, id, <<>>))
    BY <1>5 DEF AskImpact
  <2>3. kind = "impact" /\ asked = id /\ given = Impact(Graph, id, <<>>)
    BY <1>1, <2>2, KindOfAnswer
  <2>4. IsGraph(Graph)
    BY <2>1, BundleHasGraph
  <2>5. LET size == Len(Graph.nodes)
        IN /\ given.upstream = Cardinality(Reached(Graph, "upstream", id, size))
           /\ given.downstream = Cardinality(Reached(Graph, "downstream", id, size))
           /\ ToSet(given.critical) \subseteq Reached(Graph, "downstream", id, size)
    BY <2>1, <2>3, <2>4, ImpactAnswer
  <2> QED  BY <2>3, <2>5 DEF FollowsEdges
<1>6. CASE Analyze \/ Search \/ AskExplain \/ AskPage \/ FollowPage
  <2>1. PICK other \in {"analysis", "search", "explain", "list", "failure"} : \E a, g : Answers(other, a, g)
    BY <1>6 DEF Analyze, Search, AskExplain, AskPage, FollowPage, TurnTo
  <2>2. kind = other
    BY <1>1, <2>1, KindOfAnswer
  <2> QED  BY <2>1, <2>2 DEF FollowsEdges
<1> QED  BY <1>2, <1>3, <1>4, <1>5, <1>6 DEF QuestionsNext

\* And the answer stays so, as the bundle does.
LEMMA ReachableStep ==
    ASSUME ReachableInv, [Next]_investigationVars
    PROVE  ReachableInv'
<1>1. CASE UNCHANGED bundle /\ UNCHANGED scene /\ UNCHANGED answer
  BY <1>1 DEF ReachableInv, FollowsEdges, Graph, FieldGraph, IsSubgraph
<1>2. CASE QuestionsNext /\ UNCHANGED bundle /\ UNCHANGED scene
  <2>1. PICK kind, asked, given : Answers(kind, asked, given)
    BY <1>2 DEF QuestionsNext, AskDependencies, AskFieldDependencies, AskSubgraph, Analyze, AskImpact,
                Search, AskExplain, AskPage, FollowPage, TurnTo
  <2>2. FollowsEdges(kind, asked, given)
    BY <1>2, <2>1, AskedFollowsEdges
  <2>3. answer'.kind = kind /\ answer'.asked = asked /\ answer'.given = given
    BY <2>1, KindOfAnswer
  <2>4. Graph' = Graph /\ FieldGraph' = FieldGraph
    BY <1>2 DEF Graph, FieldGraph
  <2>5. FollowsEdges(answer.kind, answer.asked, answer.given)'
    BY <2>3, <2>2, <2>4 DEF FollowsEdges, IsSubgraph
  <2> QED  BY <1>2, <2>5 DEF ReachableInv
<1> QED  BY <1>1, <1>2 DEF Next, investigationVars

(* Every answer about dependencies (flat, in build order, as a tree, a subgraph, the counts of *)
(* impact, the origins of a column) holds what a chain of edges within the depth leads to, once *)
(* and with its distance, and nothing else, whatever the manifest is (graph.ts:210,            *)
(* dependencies/service.ts:59).                                                                *)
THEOREM DependenciesAreReachableAlways == Spec => []DependenciesAreReachable
<1>1. Init => ReachableInv
  BY DEF Init, ReachableInv, StartQuestions, IdleQuestions, NoAnswer, FollowsEdges
<1>2. ReachableInv => DependenciesAreReachable
  BY DEF ReachableInv, FollowsEdges, DependenciesAreReachable
<1> QED  BY <1>1, <1>2, ReachableStep, PTL DEF Spec

-----------------------------------------------------------------------------
(* The critical path.  The paths to a leaf, and the longest of them. *)
\* Paths are prolonged one edge at a time.
LEMMA PathsUnfold ==
    ASSUME NEW graph, NEW leaf, NEW within, IsFiniteSet(within)
    PROVE  LET g == PathsTo(graph, leaf, within)
           IN  /\ DOMAIN g = 0 .. Cardinality(within) /\ g[0] = <<<<leaf>>>>
               /\ \A n \in 1 .. Cardinality(within) : g[n] = Prolonged(graph, g[n - 1], within)
<1> DEFINE N == Cardinality(within)
           zero == <<<<leaf>>>>
           F(q, n) == Prolonged(graph, q, within)
           Defines(f, m) == f = [n \in 0 .. m |-> IF n = 0 THEN zero ELSE F(f[n - 1], n)]
           done == {m \in 0 .. N : \E f : Defines(f, m)}
<1>1. N \in Nat
  BY FS_CardinalityType
<1>2. PathsTo(graph, leaf, within) = (CHOOSE f : Defines(f, N))
  BY DEF PathsTo
<1> HIDE DEF F, N, zero
<1>3. 0 \in done
  <2> DEFINE f == [n \in 0 .. 0 |-> zero]
  <2>1. Defines(f, 0)
    OBVIOUS
  <2> HIDE DEF Defines, f
  <2> QED  BY <1>1, <2>1
<1>4. ASSUME NEW m \in 1 .. N, m - 1 \in done PROVE m \in done
  <2>1. PICK f : Defines(f, m - 1)
    BY <1>4
  <2>2. \A k \in 0 .. m - 1 : f[k] = IF k = 0 THEN zero ELSE F(f[k - 1], k)
    BY <2>1, Zenon
  <2> DEFINE g == [k \in 0 .. m |-> IF k = m THEN F(f[m - 1], m) ELSE f[k]]
  <2>3. g[m] = F(f[m - 1], m) /\ \A k \in 0 .. m - 1 : g[k] = f[k]
    BY <1>1
  <2>4. g = [k \in 0 .. m |-> g[k]]
    OBVIOUS
  <2> HIDE DEF g, Defines
  <2>5. \A k \in 0 .. m : g[k] = IF k = 0 THEN zero ELSE F(g[k - 1], k)
    <3> TAKE k \in 0 .. m
    <3>1. CASE k = m
      <4>1. m # 0 /\ m - 1 \in 0 .. m - 1
        OBVIOUS
      <4> QED  BY <2>3, <3>1, <4>1
    <3>2. CASE k # m
      <4>1. k \in 0 .. m - 1 /\ (k # 0 => k - 1 \in 0 .. m - 1)
        BY <3>2
      <4> QED  BY <2>2, <2>3, <4>1
    <3> QED  BY <3>1, <3>2
  <2>6. Defines(g, m)
    BY <2>4, <2>5 DEF Defines
  <2>7. m \in 0 .. N
    BY <1>1
  <2> QED  BY <2>6, <2>7
<1> HIDE DEF done
<1>5. 0 .. N \subseteq done
  BY <1>1, <1>3, <1>4, BoundedInduction
<1>6. N \in done
  BY <1>1, <1>5
<1> DEFINE g == CHOOSE f : Defines(f, N)
<1>7. Defines(g, N)
  <2> HIDE DEF Defines
  <2> QED  BY <1>6 DEF done
<1> HIDE DEF g
<1>8. \A n \in 0 .. N : g[n] = IF n = 0 THEN zero ELSE F(g[n - 1], n)
  BY <1>7, Zenon
<1>9. g[0] = zero /\ \A n \in 1 .. N : g[n] = F(g[n - 1], n)
  <2>1. 0 \in 0 .. N /\ \A n \in 1 .. N : n \in 0 .. N /\ n # 0
    BY <1>1
  <2> QED  BY <1>8, <2>1
<1>10. PathsTo(graph, leaf, within) = g
  BY <1>2 DEF g
<1>11. DOMAIN g = 0 .. N
  BY <1>7, Zenon
<1> QED  BY <1>9, <1>10, <1>11 DEF N, F, zero

\* An edge joins a parent to a node.
LEMMA EdgeIsToParent ==
    ASSUME NEW graph, NEW a, NEW b
    PROVE  (a \in Parents(graph, {b}) <=> HasEdge(graph, a, b))
           /\ (HasEdge(graph, a, b) => b \in Children(graph, {a}))
BY DEF Parents, Children, HasEdge

(* The paths of n edges to a node, of distinct nodes within a set. *)
PathsOf(graph, leaf, within, n) ==
    {path \in Seq(within) :
        /\ Len(path) = n + 1 /\ path[n + 1] = leaf
        /\ \A i, j \in 1 .. n + 1 : path[i] = path[j] => i = j
        /\ \A i \in 1 .. n : HasEdge(graph, path[i], path[i + 1])}
IsProlonged(path, p) == \A i \in 1 .. Len(path) : p[i + 1] = path[i]

(* One more node in front of a sequence. *)
InFront(x, q) == <<x>> \o q

\* The nodes that it has then.
LEMMA NodeInFront ==
    ASSUME NEW S, NEW x \in S, NEW q \in Seq(S)
    PROVE  \E r \in Seq(S) : /\ r = InFront(x, q) /\ Len(r) = Len(q) + 1 /\ r[1] = x
                             /\ \A i \in 1 .. Len(q) : r[i + 1] = q[i]
<1>1. <<x>> \in Seq(S) /\ Len(<<x>>) = 1 /\ <<x>>[1] = x
  OBVIOUS
<1>2. PICK one \in Seq(S) : one = <<x>> /\ Len(one) = 1 /\ one[1] = x
  BY <1>1
<1> DEFINE r == one \o q
<1>3. Len(q) \in Nat
  BY LenProperties
<1>4. /\ r \in Seq(S) /\ Len(r) = Len(one) + Len(q)
      /\ \A i \in 1 .. Len(one) + Len(q) : r[i] = IF i <= Len(one) THEN one[i] ELSE q[i - Len(one)]
  BY ConcatProperties
<1> HIDE DEF r
<1>5. r[1] = x
  BY <1>2, <1>3, <1>4
<1>6. ASSUME NEW i \in 1 .. Len(q) PROVE r[i + 1] = q[i]
  <2>1. i + 1 \in 1 .. 1 + Len(q) /\ ~(i + 1 <= 1) /\ (i + 1) - 1 = i
    BY <1>3
  <2> QED  BY <1>2, <1>4, <2>1
<1>7. r = InFront(x, q)
  BY <1>2 DEF r, InFront
<1>8. Len(r) = Len(q) + 1
  BY <1>2, <1>3, <1>4
<1> QED  BY <1>4, <1>5, <1>6, <1>7, <1>8

\* A path of n edges with a parent in front is one of n + 1, and all those that end in it.
LEMMA FrontIsPath ==
    ASSUME NEW graph, NEW leaf, NEW within, NEW n \in Nat, NEW path \in PathsOf(graph, leaf, within, n)
    PROVE  \A p : (\E x \in within \ ToSet(path) : x \in Parents(graph, {path[1]}) /\ p = InFront(x, path))
                  <=> (p \in PathsOf(graph, leaf, within, n + 1) /\ IsProlonged(path, p))
<1>1. /\ path \in Seq(within) /\ Len(path) = n + 1 /\ path[n + 1] = leaf
      /\ \A i, j \in 1 .. n + 1 : path[i] = path[j] => i = j
      /\ \A i \in 1 .. n : HasEdge(graph, path[i], path[i + 1])
  BY DEF PathsOf
<1>2. DOMAIN path = 1 .. n + 1 /\ \A i \in 1 .. n + 1 : path[i] \in within
  BY <1>1, LenProperties
<1>3. ToSet(path) = {path[i] : i \in 1 .. n + 1}
  BY <1>2 DEF ToSet
<1>4. \A i \in 1 .. n + 2 : i = 1 \/ (i - 1 \in 1 .. n + 1 /\ (i - 1) + 1 = i)
  OBVIOUS
<1>5. ASSUME NEW x \in within \ ToSet(path), x \in Parents(graph, {path[1]})
      PROVE  InFront(x, path) \in PathsOf(graph, leaf, within, n + 1) /\ IsProlonged(path, InFront(x, path))
  <2>1. PICK r \in Seq(within) : /\ r = InFront(x, path) /\ Len(r) = Len(path) + 1 /\ r[1] = x
                                 /\ \A i \in 1 .. Len(path) : r[i + 1] = path[i]
    <3>1. x \in within /\ path \in Seq(within)
      BY <1>1, <1>5
    <3> QED  BY <3>1, NodeInFront
  <2>2. Len(r) = n + 2 /\ \A i \in 1 .. n + 1 : r[i + 1] = path[i]
    BY <1>1, <2>1
  <2>3. r[n + 2] = leaf
    <3>1. n + 1 \in 1 .. n + 1 /\ (n + 1) + 1 = n + 2
      OBVIOUS
    <3> QED  BY <1>1, <2>2, <3>1
  <2>4. ASSUME NEW i \in 1 .. n + 2, NEW j \in 1 .. n + 2, r[i] = r[j] PROVE i = j
    <3>1. \A k \in 1 .. n + 1 : path[k] # x
      BY <1>3
    <3>2. i = 1 \/ r[i] = path[i - 1]
      BY <1>4, <2>2
    <3>3. j = 1 \/ r[j] = path[j - 1]
      BY <1>4, <2>2
    <3> QED  BY <1>1, <1>4, <2>1, <2>4, <3>1, <3>2, <3>3
  <2>5. ASSUME NEW i \in 1 .. n + 1 PROVE HasEdge(graph, r[i], r[i + 1])
    <3>1. CASE i = 1
      <4>1. r[1] = x /\ r[1 + 1] = path[1]
        BY <2>1, <2>2
      <4>2. HasEdge(graph, x, path[1])
        BY <1>5, EdgeIsToParent
      <4> QED  BY <3>1, <4>1, <4>2
    <3>2. CASE i # 1
      <4>1. i - 1 \in 1 .. n /\ i \in 1 .. n + 1 /\ i - 1 \in 1 .. n + 1 /\ (i - 1) + 1 = i
        BY <3>2
      <4>2. r[i] = path[i - 1] /\ r[i + 1] = path[i]
        BY <2>2, <4>1
      <4>3. HasEdge(graph, path[i - 1], path[i])
        BY <1>1, <4>1
      <4> QED  BY <4>2, <4>3
    <3> QED  BY <3>1, <3>2
  <2>6. (n + 1) + 1 = n + 2
    OBVIOUS
  <2>7. r \in PathsOf(graph, leaf, within, n + 1)
    BY <2>2, <2>3, <2>4, <2>5, <2>6 DEF PathsOf
  <2> QED  BY <1>1, <2>1, <2>2, <2>7 DEF IsProlonged
<1>6. ASSUME NEW p \in PathsOf(graph, leaf, within, n + 1), IsProlonged(path, p)
      PROVE  \E x \in within \ ToSet(path) : x \in Parents(graph, {path[1]}) /\ p = InFront(x, path)
  <2> DEFINE x == p[1]
  <2>1. /\ p \in Seq(within) /\ Len(p) = n + 2 /\ \A i, j \in 1 .. n + 2 : p[i] = p[j] => i = j
        /\ \A i \in 1 .. n + 1 : HasEdge(graph, p[i], p[i + 1])
    <3>1. (n + 1) + 1 = n + 2
      OBVIOUS
    <3> QED  BY <3>1 DEF PathsOf
  <2>2. \A i \in 1 .. n + 1 : p[i + 1] = path[i]
    BY <1>1, <1>6 DEF IsProlonged
  <2>3. x \in within /\ 1 \in 1 .. n + 2 /\ \A i \in 1 .. n + 1 : i + 1 \in 1 .. n + 2 /\ i + 1 # 1
    BY <2>1, LenProperties
  <2>4. x \notin ToSet(path)
    BY <1>3, <2>1, <2>2, <2>3
  <2>5. x \in Parents(graph, {path[1]})
    <3>1. 1 \in 1 .. n + 1 /\ p[1 + 1] = path[1]
      BY <2>2
    <3>2. HasEdge(graph, x, path[1])
      BY <2>1, <3>1
    <3> QED  BY <3>2, EdgeIsToParent
  <2> HIDE DEF x
  <2>6. PICK r \in Seq(within) : /\ r = InFront(x, path) /\ Len(r) = Len(path) + 1 /\ r[1] = x
                                 /\ \A i \in 1 .. Len(path) : r[i + 1] = path[i]
    <3>1. x \in within /\ path \in Seq(within)
      BY <1>1, <2>3
    <3> QED  BY <3>1, NodeInFront
  <2>7. Len(r) = n + 2 /\ \A i \in 1 .. n + 1 : r[i + 1] = path[i]
    BY <1>1, <2>6
  <2>8. \A i \in 1 .. n + 2 : r[i] = p[i]
    BY <1>4, <2>2, <2>6, <2>7 DEF x
  <2>9. r = [i \in 1 .. n + 2 |-> r[i]] /\ p = [i \in 1 .. n + 2 |-> p[i]]
    <3>1. r = [i \in 1 .. Len(r) |-> r[i]]
      BY <2>6, LenProperties
    <3>2. p = [i \in 1 .. Len(p) |-> p[i]]
      BY <2>1, LenProperties
    <3> QED  BY <2>1, <2>7, <3>1, <3>2
  <2>10. r = p
    BY <2>8, <2>9
  <2> QED  BY <2>3, <2>4, <2>5, <2>6, <2>10
<1> QED  BY <1>5, <1>6

\* The paths that prolong one.
LEMMA WithParentsAre ==
    ASSUME NEW graph, IsGraph(graph), NEW leaf, NEW within, NEW n \in Nat,
           NEW path \in PathsOf(graph, leaf, within, n)
    PROVE  LET q == WithParents(graph, path, within)
           IN  /\ IsSequence(q)
               /\ \A p : p \in ToSet(q) <=> (p \in PathsOf(graph, leaf, within, n + 1) /\ IsProlonged(path, p))
<1> DEFINE others == within \ ToSet(path)
           parents == Only(Inbound(graph, path[1]), others)
           q == WithParents(graph, path, within)
<1>1. IsSequence(parents) /\ ToSet(parents) = Parents(graph, {path[1]}) \cap others
  <2>1. IsSequence(Inbound(graph, path[1])) /\ ToSet(Inbound(graph, path[1])) = Parents(graph, {path[1]})
    BY NeighborsAreLists
  <2> HIDE DEF others
  <2> QED  BY <2>1, OnlyOwn
<1>2. q = [j \in DOMAIN parents |-> InFront(parents[j], path)]
  BY DEF WithParents, InFront
<1> HIDE DEF parents, q
<1>3. PICK m \in Nat : m = Len(parents) /\ DOMAIN parents = 1 .. m
  BY <1>1, OwnMembers DEF IsSequence
<1>4. q = [j \in 1 .. m |-> q[j]] /\ \A j \in 1 .. m : q[j] = InFront(parents[j], path)
  BY <1>2, <1>3
<1>5. IsSequence(q) /\ DOMAIN q = 1 .. m
  BY <1>4, OfPlaces
<1>6. \A p : p \in ToSet(q) <=> \E j \in 1 .. m : p = InFront(parents[j], path)
  BY <1>4, <1>5 DEF ToSet
<1>7. \A x : x \in ToSet(parents) <=> \E j \in 1 .. m : x = parents[j]
  BY <1>3 DEF ToSet
<1>8. \A p : p \in ToSet(q) <=> \E x \in ToSet(parents) : p = InFront(x, path)
  BY <1>6, <1>7
<1>9. \A p : p \in ToSet(q) <=> \E x \in others : x \in Parents(graph, {path[1]}) /\ p = InFront(x, path)
  BY <1>1, <1>8
<1>10. \A p : (\E x \in others : x \in Parents(graph, {path[1]}) /\ p = InFront(x, path))
              <=> (p \in PathsOf(graph, leaf, within, n + 1) /\ IsProlonged(path, p))
  BY FrontIsPath
<1> HIDE DEF others
<1>11. \A p : p \in ToSet(q) <=> (p \in PathsOf(graph, leaf, within, n + 1) /\ IsProlonged(path, p))
  BY <1>9, <1>10
<1> QED  BY <1>5, <1>11 DEF q

\* The rest of a path of n + 1 edges is one of n.
LEMMA RestIsPath ==
    ASSUME NEW graph, NEW leaf, NEW within, NEW n \in Nat, NEW p \in PathsOf(graph, leaf, within, n + 1)
    PROVE  \E path \in PathsOf(graph, leaf, within, n) : IsProlonged(path, p)
<1> DEFINE path == [i \in 1 .. n + 1 |-> p[i + 1]]
<1>1. /\ p \in Seq(within) /\ Len(p) = n + 2 /\ \A i, j \in 1 .. n + 2 : p[i] = p[j] => i = j
      /\ \A i \in 1 .. n + 1 : HasEdge(graph, p[i], p[i + 1])
      /\ p[n + 2] = leaf
  <2>1. (n + 1) + 1 = n + 2
    OBVIOUS
  <2> QED  BY <2>1 DEF PathsOf
<1>2. \A i \in 1 .. n + 1 : path[i] = p[i + 1] /\ i + 1 \in 1 .. n + 2
  OBVIOUS
<1>3. path \in [1 .. n + 1 -> within]
  BY <1>1, <1>2, LenProperties
<1> HIDE DEF path
<1>4. path \in Seq(within) /\ Len(path) = n + 1
  BY <1>3
<1>5. path[n + 1] = leaf
  <2>1. n + 1 \in 1 .. n + 1 /\ (n + 1) + 1 = n + 2
    OBVIOUS
  <2> QED  BY <1>1, <1>2, <2>1
<1>6. \A i, j \in 1 .. n + 1 : path[i] = path[j] => i = j
  <2> TAKE i, j \in 1 .. n + 1
  <2>1. path[i] = path[j] => i + 1 = j + 1
    BY <1>1, <1>2
  <2> QED  BY <2>1
<1>7. ASSUME NEW i \in 1 .. n PROVE HasEdge(graph, path[i], path[i + 1])
  <2>1. i \in 1 .. n + 1 /\ i + 1 \in 1 .. n + 1
    OBVIOUS
  <2>2. path[i] = p[i + 1] /\ path[i + 1] = p[(i + 1) + 1]
    BY <1>2, <2>1
  <2> QED  BY <1>1, <2>1, <2>2
<1>8. path \in PathsOf(graph, leaf, within, n)
  BY <1>4, <1>5, <1>6, <1>7 DEF PathsOf
<1> QED  BY <1>2, <1>4, <1>8 DEF IsProlonged

\* Paths of n edges, prolonged, are the paths of n + 1.
LEMMA ProlongedAre ==
    ASSUME NEW graph, IsGraph(graph), NEW leaf, NEW within, NEW n \in Nat,
           NEW paths, IsSequence(paths), ToSet(paths) = PathsOf(graph, leaf, within, n)
    PROVE  LET q == Prolonged(graph, paths, within)
           IN  IsSequence(q) /\ ToSet(q) = PathsOf(graph, leaf, within, n + 1)
<1>1. PICK m \in Nat : m = Len(paths) /\ DOMAIN paths = 1 .. m
  BY OwnMembers DEF IsSequence
<1> DEFINE ss == [i \in DOMAIN paths |-> WithParents(graph, paths[i], within)]
           longer == PathsOf(graph, leaf, within, n + 1)
           q == Prolonged(graph, paths, within)
<1>2. ss = [i \in 1 .. m |-> ss[i]] /\ \A i \in 1 .. m : ss[i] = WithParents(graph, paths[i], within)
  BY <1>1
<1>3. q = FlattenSeq(ss)
  BY DEF Prolonged
<1> HIDE DEF ss, longer, q
<1>4. \A i \in 1 .. m : paths[i] \in PathsOf(graph, leaf, within, n)
  BY <1>1 DEF ToSet
<1>5. ASSUME NEW i \in 1 .. m
      PROVE  /\ IsSequence(ss[i])
             /\ \A p : p \in ToSet(ss[i]) <=> (p \in longer /\ IsProlonged(paths[i], p))
  <2>1. PICK path \in PathsOf(graph, leaf, within, n) : path = paths[i]
    BY <1>4
  <2>2. LET r == WithParents(graph, path, within)
        IN  /\ IsSequence(r)
            /\ \A p : p \in ToSet(r) <=> (p \in PathsOf(graph, leaf, within, n + 1) /\ IsProlonged(path, p))
    BY WithParentsAre
  <2> QED  BY <1>2, <2>1, <2>2 DEF longer
<1>6. IsSequence(q) /\ \A p : p \in ToSet(q) <=> \E i \in 1 .. m : p \in ToSet(ss[i])
  BY <1>2, <1>3, <1>5, FlatHolds
<1>7. \A p : p \in longer => \E i \in 1 .. m : IsProlonged(paths[i], p)
  <2> TAKE p
  <2> HAVE p \in longer
  <2>1. PICK path \in PathsOf(graph, leaf, within, n) : IsProlonged(path, p)
    BY RestIsPath DEF longer
  <2>2. PICK i \in 1 .. m : paths[i] = path
    BY <1>1, <2>1 DEF ToSet
  <2> QED  BY <2>1, <2>2
<1>8. ToSet(q) = longer
  BY <1>5, <1>6, <1>7
<1> QED  BY <1>6, <1>8 DEF q, longer

\* The paths that are found are all there are.
LEMMA PathsAre ==
    ASSUME NEW graph, IsGraph(graph), NEW within, IsFiniteSet(within), NEW leaf \in within
    PROVE  LET found == PathsTo(graph, leaf, within)
           IN  \A n \in 0 .. Cardinality(within) :
                   IsSequence(found[n]) /\ ToSet(found[n]) = PathsOf(graph, leaf, within, n)
<1> DEFINE N == Cardinality(within)
           found == PathsTo(graph, leaf, within)
           right == {n \in 0 .. N : IsSequence(found[n]) /\ ToSet(found[n]) = PathsOf(graph, leaf, within, n)}
<1>1. N \in Nat
  BY FS_CardinalityType
<1>2. found[0] = <<<<leaf>>>> /\ \A n \in 1 .. N : found[n] = Prolonged(graph, found[n - 1], within)
  BY PathsUnfold
<1> HIDE DEF found, N
<1>3. 0 \in right
  <2> DEFINE one == <<leaf>>
  <2>1. one \in Seq(within) /\ Len(one) = 1 /\ one[1] = leaf
    OBVIOUS
  <2> HIDE DEF one
  <2>2. IsSequence(<<one>>) /\ ToSet(<<one>>) = {one}
    <3>1. <<one>> \in Seq({one}) /\ Len(<<one>>) = 1 /\ DOMAIN <<one>> = 1 .. 1 /\ <<one>>[1] = one
      OBVIOUS
    <3>2. ToSet(<<one>>) = {one}
      BY <3>1 DEF ToSet
    <3> QED  BY <3>1, <3>2 DEF IsSequence
  <2>3. one \in PathsOf(graph, leaf, within, 0)
    BY <2>1 DEF PathsOf
  <2>4. ASSUME NEW p \in PathsOf(graph, leaf, within, 0) PROVE p = one
    <3>1. p \in Seq(within) /\ Len(p) = 1 /\ p[1] = leaf
      BY DEF PathsOf
    <3>2. p = [i \in 1 .. 1 |-> p[i]] /\ one = [i \in 1 .. 1 |-> one[i]]
      BY <2>1, <3>1, LenProperties
    <3> QED  BY <2>1, <3>1, <3>2
  <2>5. PathsOf(graph, leaf, within, 0) = {one}
    BY <2>3, <2>4
  <2>6. found[0] = <<one>>
    BY <1>2 DEF one
  <2> QED  BY <1>1, <2>2, <2>5, <2>6
<1>4. ASSUME NEW n \in 1 .. N, n - 1 \in right PROVE n \in right
  <2>1. PICK q : q = found[n - 1] /\ IsSequence(q) /\ ToSet(q) = PathsOf(graph, leaf, within, n - 1)
    BY <1>4
  <2>2. n - 1 \in Nat /\ (n - 1) + 1 = n /\ n \in 0 .. N
    BY <1>1
  <2> DEFINE k == n - 1
  <2>3. k \in Nat /\ ToSet(q) = PathsOf(graph, leaf, within, k) /\ k + 1 = n
    BY <2>1, <2>2
  <2> HIDE DEF k
  <2>4. LET r == Prolonged(graph, q, within)
        IN  IsSequence(r) /\ ToSet(r) = PathsOf(graph, leaf, within, k + 1)
    BY <2>1, <2>3, ProlongedAre
  <2> QED  BY <1>2, <2>1, <2>2, <2>3, <2>4
<1> HIDE DEF right
<1>5. 0 .. N \subseteq right
  BY <1>1, <1>3, <1>4, BoundedInduction
<1> QED  BY <1>5 DEF right, N, found

\* The longest path is a path, and no path within the set has more nodes.
LEMMA LongestIsPath ==
    ASSUME NEW graph, IsGraph(graph), NEW within, IsFiniteSet(within), NEW leaf \in within
    PROVE  \E n \in 0 .. Cardinality(within) :
               /\ LongestPathToRoot(graph, leaf, within) \in PathsOf(graph, leaf, within, n)
               /\ \A m \in n + 1 .. Cardinality(within) : PathsOf(graph, leaf, within, m) = {}
<1> DEFINE N == Cardinality(within)
           found == PathsTo(graph, leaf, within)
           some == {n \in DOMAIN found : found[n] # <<>>}
           n == Max(some)
<1>1. N \in Nat
  BY FS_CardinalityType
<1>2. DOMAIN found = 0 .. N /\ found[0] = <<<<leaf>>>>
  BY PathsUnfold
<1>3. \A k \in 0 .. N : IsSequence(found[k]) /\ ToSet(found[k]) = PathsOf(graph, leaf, within, k)
  BY PathsAre
<1>4. LongestPathToRoot(graph, leaf, within) = found[n][1]
  BY DEF LongestPathToRoot, FirstLongest
<1> HIDE DEF N, found
<1>5. some \in SUBSET (0 .. N) /\ 0 \in some
  <2>1. <<<<leaf>>>> # <<>>
    OBVIOUS
  <2> QED  BY <1>1, <1>2, <2>1
<1>6. n \in some /\ \A x \in some : n >= x
  <2> HIDE DEF some
  <2> QED  BY <1>1, <1>5, LargestIn
<1>7. n \in 0 .. N /\ found[n] # <<>>
  BY <1>2, <1>6
<1>8. \A m \in 0 .. N : m > n => found[m] = <<>>
  BY <1>2, <1>6
<1> HIDE DEF n, some
<1>9. found[n][1] \in PathsOf(graph, leaf, within, n)
  <2>1. PICK q : q = found[n] /\ IsSequence(q) /\ q # <<>> /\ ToSet(q) = PathsOf(graph, leaf, within, n)
    BY <1>3, <1>7
  <2>2. 1 \in 1 .. Len(q)
    BY <2>1, EmptySeq, OwnMembers DEF IsSequence
  <2>3. q[1] \in ToSet(q)
    BY <2>1, <2>2, OwnMembers DEF IsSequence
  <2> QED  BY <2>1, <2>3
<1>10. ASSUME NEW m \in n + 1 .. N PROVE PathsOf(graph, leaf, within, m) = {}
  <2>1. m \in 0 .. N /\ m > n
    BY <1>1, <1>7
  <2>2. found[m] = <<>>
    BY <1>8, <2>1
  <2>3. ToSet(<<>>) = {}
    BY DEF ToSet
  <2> QED  BY <1>3, <2>1, <2>2, <2>3
<1> QED  BY <1>4, <1>7, <1>9, <1>10 DEF N

\* None comes twice in a list exactly when no two places hold the same.
LEMMA NoneTwiceIs ==
    ASSUME NEW S, NEW c \in Seq(S)
    PROVE  NoneTwice(c) <=> \A i, j \in 1 .. Len(c) : c[i] = c[j] => i = j
<1> DEFINE N == Len(c)
           T == ToSet(c)
<1>1. N \in Nat /\ DOMAIN c = 1 .. N /\ c = [i \in 1 .. N |-> c[i]]
  BY LenProperties
<1>2. (\A i \in 1 .. N : c[i] \in T) /\ \A t \in T : \E i \in 1 .. N : c[i] = t
  BY <1>1 DEF ToSet
<1>3. NoneTwice(c) <=> Cardinality(T) = N
  BY DEF NoneTwice
<1> HIDE DEF N, T
<1>4. c \in Surjection(1 .. N, T)
  BY <1>1, <1>2 DEF Surjection
<1>5. IsFiniteSet(1 .. N) /\ Cardinality(1 .. N) = N
  <2>1. 1 \in Int /\ N \in Int
    BY <1>1
  <2>2. /\ IsFiniteSet(1 .. N)
        /\ Cardinality(1 .. N) = IF 1 > N THEN 0 ELSE N - 1 + 1
    BY ONLY <2>1, FS_Interval
  <2> QED  BY <1>1, <2>2
<1>6. Cardinality(T) = N <=> c \in Injection(1 .. N, T)
  BY <1>4, <1>5, FS_Surjection
<1>7. c \in Injection(1 .. N, T) <=> \A i, j \in 1 .. N : c[i] = c[j] => i = j
  BY <1>1, <1>2 DEF Injection, IsInjective
<1> QED  BY <1>3, <1>6, <1>7 DEF N

\* A path is a chain, and a chain to a node is a path to it.
LEMMA PathsAreChains ==
    ASSUME NEW graph, NEW leaf, NEW within, NEW n \in Nat, NEW p \in Seq(within), Len(p) = n + 1
    PROVE  p \in PathsOf(graph, leaf, within, n) <=> IsChain(graph, within, p) /\ Last(p) = leaf
<1>1. DOMAIN p = 1 .. n + 1 /\ \A i \in 1 .. n + 1 : p[i] \in within
  BY LenProperties
<1>2. ToSet(p) \subseteq within
  BY <1>1 DEF ToSet
<1>3. NoneTwice(p) <=> \A i, j \in 1 .. n + 1 : p[i] = p[j] => i = j
  BY NoneTwiceIs
<1>4. Last(p) = p[n + 1] /\ Len(p) - 1 = n
  BY DEF Last
<1> QED  BY <1>2, <1>3, <1>4 DEF PathsOf, IsChain

\* The leaves are tried one at a time.
LEMMA CriticalUnfolds ==
    ASSUME NEW graph, NEW executions,
           LET leaves == Leaves(graph, Executed(executions)) IN Len(leaves) \in Nat
    PROVE  \E g : /\ g[0] = [path |-> <<>>, time |-> 0] /\ CriticalPath(graph, executions) = g[Len(Leaves(graph, Executed(executions)))]
                  /\ \A n \in 1 .. Len(Leaves(graph, Executed(executions))) : g[n] = Longer(g[n - 1], PathFrom(graph, executions, Leaves(graph, Executed(executions))[n].id))
<1> DEFINE N == Len(Leaves(graph, Executed(executions)))
           zero == [path |-> <<>>, time |-> 0]
           F(q, n) == Longer(q, PathFrom(graph, executions, Leaves(graph, Executed(executions))[n].id))
           Defines(f, m) == f = [n \in 0 .. m |-> IF n = 0 THEN zero ELSE F(f[n - 1], n)]
           done == {m \in 0 .. N : \E f : Defines(f, m)}
<1>1. N \in Nat
  OBVIOUS
<1>2. CriticalPath(graph, executions) = (CHOOSE f : Defines(f, N))[N]
  BY DEF CriticalPath
<1> HIDE DEF F, N, zero
<1>3. 0 \in done
  <2> DEFINE f == [n \in 0 .. 0 |-> zero]
  <2>1. Defines(f, 0)
    OBVIOUS
  <2> HIDE DEF Defines, f
  <2> QED  BY <1>1, <2>1
<1>4. ASSUME NEW m \in 1 .. N, m - 1 \in done PROVE m \in done
  <2>1. PICK f : Defines(f, m - 1)
    BY <1>4
  <2>2. \A k \in 0 .. m - 1 : f[k] = IF k = 0 THEN zero ELSE F(f[k - 1], k)
    BY <2>1, Zenon
  <2> DEFINE g == [k \in 0 .. m |-> IF k = m THEN F(f[m - 1], m) ELSE f[k]]
  <2>3. g[m] = F(f[m - 1], m) /\ \A k \in 0 .. m - 1 : g[k] = f[k]
    BY <1>1
  <2>4. g = [k \in 0 .. m |-> g[k]]
    OBVIOUS
  <2> HIDE DEF g, Defines
  <2>5. \A k \in 0 .. m : g[k] = IF k = 0 THEN zero ELSE F(g[k - 1], k)
    <3> TAKE k \in 0 .. m
    <3>1. CASE k = m
      <4>1. m # 0 /\ m - 1 \in 0 .. m - 1
        OBVIOUS
      <4> QED  BY <2>3, <3>1, <4>1
    <3>2. CASE k # m
      <4>1. k \in 0 .. m - 1 /\ (k # 0 => k - 1 \in 0 .. m - 1)
        BY <3>2
      <4> QED  BY <2>2, <2>3, <4>1
    <3> QED  BY <3>1, <3>2
  <2>6. Defines(g, m)
    BY <2>4, <2>5 DEF Defines
  <2>7. m \in 0 .. N
    BY <1>1
  <2> QED  BY <2>6, <2>7
<1> HIDE DEF done
<1>5. 0 .. N \subseteq done
  BY <1>1, <1>3, <1>4, BoundedInduction
<1>6. N \in done
  BY <1>1, <1>5
<1> DEFINE g == CHOOSE f : Defines(f, N)
<1>7. Defines(g, N)
  <2> HIDE DEF Defines
  <2> QED  BY <1>6 DEF done
<1> HIDE DEF g
<1>8. \A n \in 0 .. N : g[n] = IF n = 0 THEN zero ELSE F(g[n - 1], n)
  BY <1>7, Zenon
<1>9. g[0] = zero /\ \A n \in 1 .. N : g[n] = F(g[n - 1], n)
  <2>1. 0 \in 0 .. N /\ \A n \in 1 .. N : n \in 0 .. N /\ n # 0
    BY <1>1
  <2> QED  BY <1>8, <2>1
<1>10. CriticalPath(graph, executions) = g[N]
  BY <1>2 DEF g
<1> QED  BY <1>9, <1>10 DEF N, F, zero

\* The critical path is the longest one to a node that ran and that nothing depends on.
LEMMA CriticalIsLongest ==
    ASSUME NEW graph, IsGraph(graph), NEW executions, CriticalPath(graph, executions).path # <<>>
    PROVE  \E leaf \in Executed(executions) :
               /\ Children(graph, {leaf}) = {}
               /\ CriticalPath(graph, executions) = PathFrom(graph, executions, leaf)
<1> DEFINE ran == Executed(executions)
           leaves == Leaves(graph, ran)
           kept == {n \in ToSet(graph.nodes) : Outbound(graph, n.id) = <<>> /\ n.id \in ran}
           nothing == [path |-> <<>>, time |-> 0]
           c == CriticalPath(graph, executions)
<1>1. IsSequence(leaves) /\ ToSet(leaves) \subseteq kept
  <2>1. leaves = Only(graph.nodes, kept)
    BY DEF Leaves
  <2> HIDE DEF kept, leaves
  <2> QED  BY <2>1, OnlyOwn DEF IsGraph
<1>2. PICK N \in Nat : N = Len(leaves) /\ \A k \in 1 .. N : leaves[k] \in ToSet(leaves)
  BY <1>1, OwnMembers DEF IsSequence
<1>3. \A n \in kept : n.id \in ran /\ Children(graph, {n.id}) = {}
  <2> TAKE n \in kept
  <2>1. Outbound(graph, n.id) = <<>> /\ n.id \in ran
    OBVIOUS
  <2>2. ToSet(<<>>) = {}
    BY DEF ToSet
  <2>3. ToSet(Outbound(graph, n.id)) = Children(graph, {n.id})
    BY NeighborsAreLists
  <2> QED  BY <2>1, <2>2, <2>3
<1>4. PICK g : /\ g[0] = nothing /\ c = g[N]
               /\ \A k \in 1 .. N : g[k] = Longer(g[k - 1], PathFrom(graph, executions, leaves[k].id))
  BY <1>2, CriticalUnfolds
<1> HIDE DEF kept, leaves, nothing, c
<1> DEFINE IsOfLeaf(q) == \E leaf \in ran : Children(graph, {leaf}) = {} /\ q = PathFrom(graph, executions, leaf)
           right == {k \in 0 .. N : g[k] = nothing \/ IsOfLeaf(g[k])}
<1>5. 0 \in right
  BY <1>4
<1>6. ASSUME NEW k \in 1 .. N, k - 1 \in right PROVE k \in right
  <2>1. PICK leaf : leaf = leaves[k].id /\ leaf \in ran /\ Children(graph, {leaf}) = {}
    BY <1>1, <1>2, <1>3
  <2>2. g[k] = g[k - 1] \/ g[k] = PathFrom(graph, executions, leaf)
    BY <1>4, <2>1 DEF Longer
  <2>3. g[k] = nothing \/ IsOfLeaf(g[k])
    BY <1>6, <2>1, <2>2
  <2>4. k \in 0 .. N
    OBVIOUS
  <2> HIDE DEF IsOfLeaf
  <2> QED  BY <2>3, <2>4
<1> HIDE DEF right
<1>7. N \in right
  BY <1>5, <1>6, BoundedInduction
<1>8. c = nothing \/ IsOfLeaf(c)
  BY <1>4, <1>7 DEF right
<1>9. c # nothing
  BY DEF c, nothing
<1> QED  BY <1>8, <1>9 DEF c

\* A path takes the same time in a list that has the same executions.
LEMMA TimeOfSame ==
    ASSUME NEW a, NEW b, IsSequence(a), IsSequence(b), DistinctIds(a), DistinctIds(b), ToSet(a) = ToSet(b),
           NEW path \in Seq(Executed(a))
    PROVE  PathTime(path, a) = PathTime(path, b)
<1>1. ASSUME NEW q, IsSequence(q), DistinctIds(q), NEW e \in ToSet(q)
      PROVE  ExecutionOf(q, e.id) = e
  <2> DEFINE kept == {x \in ToSet(q) : x.id = e.id}
             found == Only(q, kept)
  <2>1. IsSequence(found) /\ ToSet(found) = ToSet(q) \cap kept
    <3> HIDE DEF kept
    <3> QED  BY <1>1, OnlyOwn
  <2>2. ASSUME NEW x \in kept PROVE x = e
    <3>1. PICK i \in DOMAIN q, j \in DOMAIN q : q[i] = x /\ q[j] = e
      BY <1>1, <2>2 DEF ToSet
    <3>2. DOMAIN q = 1 .. Len(q)
      BY <1>1, OwnMembers DEF IsSequence
    <3>3. i = j
      BY <1>1, <2>2, <3>1, <3>2 DEF DistinctIds
    <3> QED  BY <3>1, <3>3
  <2>3. e \in kept /\ kept = {e}
    BY <1>1, <2>2
  <2>4. ToSet(found) = {e}
    BY <1>1, <2>1, <2>3
  <2>5. ExecutionOf(q, e.id) = Last(found)
    BY DEF ExecutionOf
  <2> HIDE DEF found, kept
  <2>6. Len(found) \in Nat /\ DOMAIN found = 1 .. Len(found) /\ \A i \in 1 .. Len(found) : found[i] \in ToSet(found)
    BY <2>1, OwnMembers DEF IsSequence
  <2>7. Len(found) # 0
    <3>1. \E i \in DOMAIN found : found[i] = e
      BY <2>4 DEF ToSet
    <3> QED  BY <2>6, <3>1
  <2>8. found[Len(found)] = e
    BY <2>4, <2>6, <2>7
  <2> QED  BY <2>5, <2>8 DEF Last
<1>2. \A id \in Executed(a) : ExecutionOf(a, id) = ExecutionOf(b, id)
  <2> TAKE id \in Executed(a)
  <2>1. PICK e \in ToSet(a) : id = e.id
    BY DEF Executed, ToSet
  <2>2. ExecutionOf(a, e.id) = e /\ ExecutionOf(b, e.id) = e
    BY <1>1, <2>1
  <2> QED  BY <2>1, <2>2
<1>3. \A i \in DOMAIN path : path[i] \in Executed(a)
  BY LenProperties
<1>4. [i \in DOMAIN path |-> ExecutionOf(a, path[i]).time] = [i \in DOMAIN path |-> ExecutionOf(b, path[i]).time]
  BY <1>2, <1>3
<1> QED  BY <1>4 DEF PathTime

\* The executions of some results are as distinct as they are.
LEMMA ExecutionsAreList ==
    ASSUME NEW results, IsRun(results)
    PROVE  IsSequence(NodeExecutions(results)) /\ DistinctIds(NodeExecutions(results))
<1> DEFINE q == NodeExecutions(results)
<1>1. PICK N \in Nat : N = Len(results) /\ DOMAIN results = 1 .. N
  BY OwnMembers DEF IsRun, IsSequence
<1>2. q = [i \in 1 .. N |-> q[i]] /\ \A i \in 1 .. N : q[i].id = results[i].id
  BY <1>1 DEF NodeExecutions
<1> HIDE DEF q
<1>3. IsSequence(q) /\ Len(q) = N /\ DOMAIN q = 1 .. N
  BY <1>2, OfPlaces
<1>4. DistinctIds(q)
  BY <1>1, <1>2, <1>3 DEF IsRun, DistinctIds
<1> QED  BY <1>3, <1>4 DEF q

\* The longest of the paths within a set is a chain to its leaf, and no longer one is.
LEMMA LongestIsChain ==
    ASSUME NEW graph, IsGraph(graph), NEW ran, IsFiniteSet(ran), NEW leaf \in ran
    PROVE  LET path == LongestPathToRoot(graph, leaf, ran)
           IN  /\ path \in Seq(ran) /\ IsChain(graph, ran, path) /\ Last(path) = leaf
               /\ \A n \in Len(path) + 1 .. Cardinality(ran) :
                      \A chain \in [1 .. n -> ran] :
                          ~(IsChain(graph, ran, chain) /\ Last(chain) = leaf)
<1> DEFINE path == LongestPathToRoot(graph, leaf, ran)
           N == Cardinality(ran)
<1>1. N \in Nat
  BY FS_CardinalityType
<1>2. PICK k \in 0 .. N : /\ path \in PathsOf(graph, leaf, ran, k)
                          /\ \A m \in k + 1 .. N : PathsOf(graph, leaf, ran, m) = {}
  BY LongestIsPath
<1> HIDE DEF path, N
<1>3. path \in Seq(ran) /\ Len(path) = k + 1 /\ k \in Nat
  BY <1>1, <1>2 DEF PathsOf
<1>4. IsChain(graph, ran, path) /\ Last(path) = leaf
  BY <1>2, <1>3, PathsAreChains
<1>5. ASSUME NEW n \in Len(path) + 1 .. N, NEW chain \in [1 .. n -> ran],
             IsChain(graph, ran, chain), Last(chain) = leaf
      PROVE  FALSE
  <2> DEFINE m == n - 1
  <2>1. m \in k + 1 .. N /\ m \in Nat /\ n = m + 1 /\ n \in Nat
    BY <1>1, <1>3
  <2> HIDE DEF m
  <2>2. chain \in Seq(ran) /\ Len(chain) = m + 1
    BY <2>1
  <2>3. chain \in PathsOf(graph, leaf, ran, m)
    BY <1>5, <2>1, <2>2, PathsAreChains
  <2> QED  BY <1>2, <2>1, <2>3
<1> QED  BY <1>3, <1>4, <1>5 DEF path, N

\* The critical path of a snapshot is a chain that ran, with its time, and a longest one.
LEMMA AnalysisHasChain ==
    ASSUME bundle \in Bundles, answer.given = Snapshot(bundle.manifest, bundle.results)
    PROVE  CriticalPathIsExecutedChain
<1> DEFINE executions == NodeExecutions(bundle.results)
           slower == {p \in Pairs(executions) : p[1].time > p[2].time}
           listed == Sorted(executions, slower)
           critical == CriticalPath(Graph, executions)
           ran == Executed(executions)
<1>1. IsGraph(Graph) /\ IsRun(bundle.results)
  BY BundlesAreRuns, BuiltIsGraph DEF Graph
<1>2. IsSequence(executions) /\ DistinctIds(executions)
  BY <1>1, ExecutionsAreList
<1>3. answer.given.graph = Graph /\ answer.given.executions = listed
      /\ answer.given.summary.criticalPath = critical
  <2>1. answer.given = SnapshotOver(Graph, bundle.manifest, bundle.results, executions)
    BY DEF Snapshot, Graph
  <2>2. \A x, rows : SnapshotOf(Graph, bundle.manifest, executions, x, rows).graph = Graph
                     /\ SnapshotOf(Graph, bundle.manifest, executions, x, rows).executions = listed
                     /\ SnapshotOf(Graph, bundle.manifest, executions, x, rows).summary
                            = ExecutionSummary(Graph, executions)
    BY DEF SnapshotOf
  <2>3. ExecutionSummary(Graph, executions).criticalPath = critical
    BY DEF ExecutionSummary
  <2> QED  BY <2>1, <2>2, <2>3 DEF SnapshotOver
<1> HIDE DEF executions, slower
<1>4. IsSequence(listed) /\ DistinctIds(listed) /\ ToSet(listed) = ToSet(executions)
  <2>1. executions \in Seq(ToSet(executions))
    BY <1>2 DEF IsSequence
  <2>2. /\ listed \in Seq(ToSet(executions)) /\ ToSet(listed) = ToSet(executions)
        /\ DistinctIds(listed)
    BY <1>2, <2>1, SortedKeeps
  <2> QED  BY <2>2, OwnMembers
<1> HIDE DEF listed, critical
<1>5. Executed(listed) = ran /\ IsFiniteSet(ran)
  <2>1. \A q : Executed(q) = {x.id : x \in ToSet(q)} /\ Executed(q) = FoundIds(q)
    BY DEF Executed, ToSet, FoundIds
  <2> QED  BY <1>2, <1>4, <2>1, IdsAreFinite
<1> HIDE DEF ran
<1>6. SUFFICES ASSUME critical.path # <<>>
      PROVE  /\ IsChain(Graph, ran, critical.path)
             /\ Children(Graph, {Last(critical.path)}) = {}
             /\ critical.time = PathTime(critical.path, listed)
             /\ \A n \in Len(critical.path) + 1 .. Cardinality(ran) :
                    \A chain \in [1 .. n -> ran] :
                        ~(IsChain(Graph, ran, chain) /\ Last(chain) = Last(critical.path))
  BY <1>3, <1>5 DEF CriticalPathIsExecutedChain
<1>7. PICK leaf \in ran : /\ Children(Graph, {leaf}) = {}
                          /\ critical = PathFrom(Graph, executions, leaf)
  BY <1>1, <1>6, CriticalIsLongest DEF critical, ran
<1>8. PICK path : path = LongestPathToRoot(Graph, leaf, ran)
  OBVIOUS
<1>9. critical.path = path /\ critical.time = PathTime(path, executions)
  BY <1>7, <1>8 DEF PathFrom, ran
<1>10. /\ path \in Seq(ran) /\ IsChain(Graph, ran, path) /\ Last(path) = leaf
       /\ \A n \in Len(path) + 1 .. Cardinality(ran) :
              \A chain \in [1 .. n -> ran] :
                  ~(IsChain(Graph, ran, chain) /\ Last(chain) = leaf)
  BY <1>1, <1>5, <1>8, LongestIsChain
<1>11. PathTime(path, executions) = PathTime(path, listed)
  BY <1>2, <1>4, <1>10, TimeOfSame DEF ran
<1> QED  BY <1>7, <1>9, <1>10, <1>11

\* So the critical path of an analysis is such a chain.
LEMMA AnalyzedHasChain ==
    ASSUME AnalysisInv
    PROVE  CriticalPathIsExecutedChain
<1>1. CASE answer.kind = "analysis"
  BY <1>1, AnalysisHasChain DEF AnalysisInv
<1>2. CASE answer.kind # "analysis"
  BY <1>2 DEF CriticalPathIsExecutedChain
<1> QED  BY <1>1, <1>2

(* The critical path of every analysis is a chain of dependencies between nodes that all ran, *)
(* none twice, to one that nothing depends on; its time is the sum of theirs, and no chain of  *)
(* nodes that ran to the same one has more of them, whatever the graph (cyclic ones too) and   *)
(* the results are (analyzer.ts:180, 229).                                                     *)
THEOREM CriticalPathIsExecutedChainAlways == Spec => []CriticalPathIsExecutedChain
<1>1. Init => AnalysisInv
  BY DEF Init, AnalysisInv, StartQuestions, IdleQuestions, NoAnswer
<1> QED  BY <1>1, AnalysisStep, AnalyzedHasChain, PTL DEF Spec

-----------------------------------------------------------------------------
(* The lineage.  The ids that are noted, the depths and what is within some steps, one after *)
(* the other.                                                                                *)

LEMMA NotedUnfolds ==
    ASSUME NEW found, NEW root, NEW ids, NEW depth, Len(ids) \in Nat
    PROVE  \E g : /\ g[0] = found /\ NotedAll(found, root, ids, depth) = g[Len(ids)]
                  /\ \A n \in 1 .. Len(ids) : g[n] = Noted(g[n - 1], root, [id |-> ids[n], depth |-> depth])
<1> DEFINE N == Len(ids)
           zero == found
           F(q, n) == Noted(q, root, [id |-> ids[n], depth |-> depth])
           Defines(f, m) == f = [n \in 0 .. m |-> IF n = 0 THEN zero ELSE F(f[n - 1], n)]
           done == {m \in 0 .. N : \E f : Defines(f, m)}
<1>1. N \in Nat
  OBVIOUS
<1>2. NotedAll(found, root, ids, depth) = (CHOOSE f : Defines(f, N))[N]
  BY DEF NotedAll
<1> HIDE DEF F, N, zero
<1>3. 0 \in done
  <2> DEFINE f == [n \in 0 .. 0 |-> zero]
  <2>1. Defines(f, 0)
    OBVIOUS
  <2> HIDE DEF Defines, f
  <2> QED  BY <1>1, <2>1
<1>4. ASSUME NEW m \in 1 .. N, m - 1 \in done PROVE m \in done
  <2>1. PICK f : Defines(f, m - 1)
    BY <1>4
  <2>2. \A k \in 0 .. m - 1 : f[k] = IF k = 0 THEN zero ELSE F(f[k - 1], k)
    BY <2>1, Zenon
  <2> DEFINE g == [k \in 0 .. m |-> IF k = m THEN F(f[m - 1], m) ELSE f[k]]
  <2>3. g[m] = F(f[m - 1], m) /\ \A k \in 0 .. m - 1 : g[k] = f[k]
    BY <1>1
  <2>4. g = [k \in 0 .. m |-> g[k]]
    OBVIOUS
  <2> HIDE DEF g, Defines
  <2>5. \A k \in 0 .. m : g[k] = IF k = 0 THEN zero ELSE F(g[k - 1], k)
    <3> TAKE k \in 0 .. m
    <3>1. CASE k = m
      <4>1. m # 0 /\ m - 1 \in 0 .. m - 1
        OBVIOUS
      <4> QED  BY <2>3, <3>1, <4>1
    <3>2. CASE k # m
      <4>1. k \in 0 .. m - 1 /\ (k # 0 => k - 1 \in 0 .. m - 1)
        BY <3>2
      <4> QED  BY <2>2, <2>3, <4>1
    <3> QED  BY <3>1, <3>2
  <2>6. Defines(g, m)
    BY <2>4, <2>5 DEF Defines
  <2>7. m \in 0 .. N
    BY <1>1
  <2> QED  BY <2>6, <2>7
<1> HIDE DEF done
<1>5. 0 .. N \subseteq done
  BY <1>1, <1>3, <1>4, BoundedInduction
<1>6. N \in done
  BY <1>1, <1>5
<1> DEFINE g == CHOOSE f : Defines(f, N)
<1>7. Defines(g, N)
  <2> HIDE DEF Defines
  <2> QED  BY <1>6 DEF done
<1> HIDE DEF g
<1>8. \A n \in 0 .. N : g[n] = IF n = 0 THEN zero ELSE F(g[n - 1], n)
  BY <1>7, Zenon
<1>9. g[0] = zero /\ \A n \in 1 .. N : g[n] = F(g[n - 1], n)
  <2>1. 0 \in 0 .. N /\ \A n \in 1 .. N : n \in 0 .. N /\ n # 0
    BY <1>1
  <2> QED  BY <1>8, <2>1
<1>10. NotedAll(found, root, ids, depth) = g[N]
  BY <1>2 DEF g
<1> QED  BY <1>9, <1>10 DEF N, F, zero

LEMMA DepthsUnfold ==
    ASSUME NEW neighbours, NEW root, NEW most, most \in Nat
    PROVE  \E g : /\ g[0] = <<>> /\ CollectDependencyIdsByDepth(neighbours, root, most) = g[most]
                  /\ \A n \in 1 .. most : g[n] = NextDepth(neighbours, root, g[n - 1], n)
<1> DEFINE N == most
           zero == <<>>
           F(q, n) == NextDepth(neighbours, root, q, n)
           Defines(f, m) == f = [n \in 0 .. m |-> IF n = 0 THEN zero ELSE F(f[n - 1], n)]
           done == {m \in 0 .. N : \E f : Defines(f, m)}
<1>1. N \in Nat
  OBVIOUS
<1>2. CollectDependencyIdsByDepth(neighbours, root, most) = (CHOOSE f : Defines(f, N))[N]
  BY DEF CollectDependencyIdsByDepth
<1> HIDE DEF F, N, zero
<1>3. 0 \in done
  <2> DEFINE f == [n \in 0 .. 0 |-> zero]
  <2>1. Defines(f, 0)
    OBVIOUS
  <2> HIDE DEF Defines, f
  <2> QED  BY <1>1, <2>1
<1>4. ASSUME NEW m \in 1 .. N, m - 1 \in done PROVE m \in done
  <2>1. PICK f : Defines(f, m - 1)
    BY <1>4
  <2>2. \A k \in 0 .. m - 1 : f[k] = IF k = 0 THEN zero ELSE F(f[k - 1], k)
    BY <2>1, Zenon
  <2> DEFINE g == [k \in 0 .. m |-> IF k = m THEN F(f[m - 1], m) ELSE f[k]]
  <2>3. g[m] = F(f[m - 1], m) /\ \A k \in 0 .. m - 1 : g[k] = f[k]
    BY <1>1
  <2>4. g = [k \in 0 .. m |-> g[k]]
    OBVIOUS
  <2> HIDE DEF g, Defines
  <2>5. \A k \in 0 .. m : g[k] = IF k = 0 THEN zero ELSE F(g[k - 1], k)
    <3> TAKE k \in 0 .. m
    <3>1. CASE k = m
      <4>1. m # 0 /\ m - 1 \in 0 .. m - 1
        OBVIOUS
      <4> QED  BY <2>3, <3>1, <4>1
    <3>2. CASE k # m
      <4>1. k \in 0 .. m - 1 /\ (k # 0 => k - 1 \in 0 .. m - 1)
        BY <3>2
      <4> QED  BY <2>2, <2>3, <4>1
    <3> QED  BY <3>1, <3>2
  <2>6. Defines(g, m)
    BY <2>4, <2>5 DEF Defines
  <2>7. m \in 0 .. N
    BY <1>1
  <2> QED  BY <2>6, <2>7
<1> HIDE DEF done
<1>5. 0 .. N \subseteq done
  BY <1>1, <1>3, <1>4, BoundedInduction
<1>6. N \in done
  BY <1>1, <1>5
<1> DEFINE g == CHOOSE f : Defines(f, N)
<1>7. Defines(g, N)
  <2> HIDE DEF Defines
  <2> QED  BY <1>6 DEF done
<1> HIDE DEF g
<1>8. \A n \in 0 .. N : g[n] = IF n = 0 THEN zero ELSE F(g[n - 1], n)
  BY <1>7, Zenon
<1>9. g[0] = zero /\ \A n \in 1 .. N : g[n] = F(g[n - 1], n)
  <2>1. 0 \in 0 .. N /\ \A n \in 1 .. N : n \in 0 .. N /\ n # 0
    BY <1>1
  <2> QED  BY <1>8, <2>1
<1>10. CollectDependencyIdsByDepth(neighbours, root, most) = g[N]
  BY <1>2 DEF g
<1> QED  BY <1>9, <1>10 DEF N, F, zero

Alone(x) == {x}
StepFurther(neighbours, ids) == ids \cup UNION {ToSet(neighbours[id]) : id \in ids}

LEMMA StepsUnfold ==
    ASSUME NEW neighbours, NEW root, NEW most, most \in Nat
    PROVE  \E g : /\ g[0] = Alone(root) /\ WithinSteps(neighbours, root, most) = g[most]
                  /\ \A n \in 1 .. most : g[n] = StepFurther(neighbours, g[n - 1])
<1> DEFINE N == most
           zero == Alone(root)
           F(q, n) == StepFurther(neighbours, q)
           Defines(f, m) == f = [n \in 0 .. m |-> IF n = 0 THEN zero ELSE F(f[n - 1], n)]
           done == {m \in 0 .. N : \E f : Defines(f, m)}
<1>1. N \in Nat
  OBVIOUS
<1>2. WithinSteps(neighbours, root, most) = (CHOOSE f : Defines(f, N))[N]
  BY DEF WithinSteps, StepFurther, Alone
<1> HIDE DEF F, N, zero
<1>3. 0 \in done
  <2> DEFINE f == [n \in 0 .. 0 |-> zero]
  <2>1. Defines(f, 0)
    OBVIOUS
  <2> HIDE DEF Defines, f
  <2> QED  BY <1>1, <2>1
<1>4. ASSUME NEW m \in 1 .. N, m - 1 \in done PROVE m \in done
  <2>1. PICK f : Defines(f, m - 1)
    BY <1>4
  <2>2. \A k \in 0 .. m - 1 : f[k] = IF k = 0 THEN zero ELSE F(f[k - 1], k)
    BY <2>1, Zenon
  <2> DEFINE g == [k \in 0 .. m |-> IF k = m THEN F(f[m - 1], m) ELSE f[k]]
  <2>3. g[m] = F(f[m - 1], m) /\ \A k \in 0 .. m - 1 : g[k] = f[k]
    BY <1>1
  <2>4. g = [k \in 0 .. m |-> g[k]]
    OBVIOUS
  <2> HIDE DEF g, Defines
  <2>5. \A k \in 0 .. m : g[k] = IF k = 0 THEN zero ELSE F(g[k - 1], k)
    <3> TAKE k \in 0 .. m
    <3>1. CASE k = m
      <4>1. m # 0 /\ m - 1 \in 0 .. m - 1
        OBVIOUS
      <4> QED  BY <2>3, <3>1, <4>1
    <3>2. CASE k # m
      <4>1. k \in 0 .. m - 1 /\ (k # 0 => k - 1 \in 0 .. m - 1)
        BY <3>2
      <4> QED  BY <2>2, <2>3, <4>1
    <3> QED  BY <3>1, <3>2
  <2>6. Defines(g, m)
    BY <2>4, <2>5 DEF Defines
  <2>7. m \in 0 .. N
    BY <1>1
  <2> QED  BY <2>6, <2>7
<1> HIDE DEF done
<1>5. 0 .. N \subseteq done
  BY <1>1, <1>3, <1>4, BoundedInduction
<1>6. N \in done
  BY <1>1, <1>5
<1> DEFINE g == CHOOSE f : Defines(f, N)
<1>7. Defines(g, N)
  <2> HIDE DEF Defines
  <2> QED  BY <1>6 DEF done
<1> HIDE DEF g
<1>8. \A n \in 0 .. N : g[n] = IF n = 0 THEN zero ELSE F(g[n - 1], n)
  BY <1>7, Zenon
<1>9. g[0] = zero /\ \A n \in 1 .. N : g[n] = F(g[n - 1], n)
  <2>1. 0 \in 0 .. N /\ \A n \in 1 .. N : n \in 0 .. N /\ n # 0
    BY <1>1
  <2> QED  BY <1>8, <2>1
<1>10. WithinSteps(neighbours, root, most) = g[N]
  BY <1>2 DEF g
<1> QED  BY <1>9, <1>10 DEF N, F, zero

LEMMA RanksUnfold ==
    ASSUME NEW graph, NEW found, NEW towards, Len(found) \in Nat
    PROVE  \E g : /\ g[0] = <<>> /\ Ranks(graph, found, towards) = g[Len(found)]
                  /\ \A n \in 1 .. Len(found) : g[n] = WithRank(graph, g[n - 1], found[n].id, towards[found[n].id])
<1> DEFINE N == Len(found)
           zero == <<>>
           F(q, n) == WithRank(graph, q, found[n].id, towards[found[n].id])
           Defines(f, m) == f = [n \in 0 .. m |-> IF n = 0 THEN zero ELSE F(f[n - 1], n)]
           done == {m \in 0 .. N : \E f : Defines(f, m)}
<1>1. N \in Nat
  OBVIOUS
<1>2. Ranks(graph, found, towards) = (CHOOSE f : Defines(f, N))[N]
  BY DEF Ranks
<1> HIDE DEF F, N, zero
<1>3. 0 \in done
  <2> DEFINE f == [n \in 0 .. 0 |-> zero]
  <2>1. Defines(f, 0)
    OBVIOUS
  <2> HIDE DEF Defines, f
  <2> QED  BY <1>1, <2>1
<1>4. ASSUME NEW m \in 1 .. N, m - 1 \in done PROVE m \in done
  <2>1. PICK f : Defines(f, m - 1)
    BY <1>4
  <2>2. \A k \in 0 .. m - 1 : f[k] = IF k = 0 THEN zero ELSE F(f[k - 1], k)
    BY <2>1, Zenon
  <2> DEFINE g == [k \in 0 .. m |-> IF k = m THEN F(f[m - 1], m) ELSE f[k]]
  <2>3. g[m] = F(f[m - 1], m) /\ \A k \in 0 .. m - 1 : g[k] = f[k]
    BY <1>1
  <2>4. g = [k \in 0 .. m |-> g[k]]
    OBVIOUS
  <2> HIDE DEF g, Defines
  <2>5. \A k \in 0 .. m : g[k] = IF k = 0 THEN zero ELSE F(g[k - 1], k)
    <3> TAKE k \in 0 .. m
    <3>1. CASE k = m
      <4>1. m # 0 /\ m - 1 \in 0 .. m - 1
        OBVIOUS
      <4> QED  BY <2>3, <3>1, <4>1
    <3>2. CASE k # m
      <4>1. k \in 0 .. m - 1 /\ (k # 0 => k - 1 \in 0 .. m - 1)
        BY <3>2
      <4> QED  BY <2>2, <2>3, <4>1
    <3> QED  BY <3>1, <3>2
  <2>6. Defines(g, m)
    BY <2>4, <2>5 DEF Defines
  <2>7. m \in 0 .. N
    BY <1>1
  <2> QED  BY <2>6, <2>7
<1> HIDE DEF done
<1>5. 0 .. N \subseteq done
  BY <1>1, <1>3, <1>4, BoundedInduction
<1>6. N \in done
  BY <1>1, <1>5
<1> DEFINE g == CHOOSE f : Defines(f, N)
<1>7. Defines(g, N)
  <2> HIDE DEF Defines
  <2> QED  BY <1>6 DEF done
<1> HIDE DEF g
<1>8. \A n \in 0 .. N : g[n] = IF n = 0 THEN zero ELSE F(g[n - 1], n)
  BY <1>7, Zenon
<1>9. g[0] = zero /\ \A n \in 1 .. N : g[n] = F(g[n - 1], n)
  <2>1. 0 \in 0 .. N /\ \A n \in 1 .. N : n \in 0 .. N /\ n # 0
    BY <1>1
  <2> QED  BY <1>8, <2>1
<1>10. Ranks(graph, found, towards) = g[N]
  BY <1>2 DEF g
<1> QED  BY <1>9, <1>10 DEF N, F, zero

AlongEdges(edges, ids) ==
    ids \cup {e[1] : e \in {f \in edges : f[2] \in ids}} \cup {e[2] : e \in {f \in edges : f[1] \in ids}}

LEMMA ReachableUnfolds ==
    ASSUME NEW edges, NEW selected, Cardinality(edges) \in Nat
    PROVE  \E g : /\ g[0] = Alone(selected) /\ ReachableFromSelected(edges, selected) = g[Cardinality(edges)]
                  /\ \A n \in 1 .. Cardinality(edges) : g[n] = AlongEdges(edges, g[n - 1])
<1> DEFINE N == Cardinality(edges)
           zero == Alone(selected)
           F(q, n) == AlongEdges(edges, q)
           Defines(f, m) == f = [n \in 0 .. m |-> IF n = 0 THEN zero ELSE F(f[n - 1], n)]
           done == {m \in 0 .. N : \E f : Defines(f, m)}
<1>1. N \in Nat
  OBVIOUS
<1>2. ReachableFromSelected(edges, selected) = (CHOOSE f : Defines(f, N))[N]
  BY DEF ReachableFromSelected, AlongEdges, Alone
<1> HIDE DEF F, N, zero
<1>3. 0 \in done
  <2> DEFINE f == [n \in 0 .. 0 |-> zero]
  <2>1. Defines(f, 0)
    OBVIOUS
  <2> HIDE DEF Defines, f
  <2> QED  BY <1>1, <2>1
<1>4. ASSUME NEW m \in 1 .. N, m - 1 \in done PROVE m \in done
  <2>1. PICK f : Defines(f, m - 1)
    BY <1>4
  <2>2. \A k \in 0 .. m - 1 : f[k] = IF k = 0 THEN zero ELSE F(f[k - 1], k)
    BY <2>1, Zenon
  <2> DEFINE g == [k \in 0 .. m |-> IF k = m THEN F(f[m - 1], m) ELSE f[k]]
  <2>3. g[m] = F(f[m - 1], m) /\ \A k \in 0 .. m - 1 : g[k] = f[k]
    BY <1>1
  <2>4. g = [k \in 0 .. m |-> g[k]]
    OBVIOUS
  <2> HIDE DEF g, Defines
  <2>5. \A k \in 0 .. m : g[k] = IF k = 0 THEN zero ELSE F(g[k - 1], k)
    <3> TAKE k \in 0 .. m
    <3>1. CASE k = m
      <4>1. m # 0 /\ m - 1 \in 0 .. m - 1
        OBVIOUS
      <4> QED  BY <2>3, <3>1, <4>1
    <3>2. CASE k # m
      <4>1. k \in 0 .. m - 1 /\ (k # 0 => k - 1 \in 0 .. m - 1)
        BY <3>2
      <4> QED  BY <2>2, <2>3, <4>1
    <3> QED  BY <3>1, <3>2
  <2>6. Defines(g, m)
    BY <2>4, <2>5 DEF Defines
  <2>7. m \in 0 .. N
    BY <1>1
  <2> QED  BY <2>6, <2>7
<1> HIDE DEF done
<1>5. 0 .. N \subseteq done
  BY <1>1, <1>3, <1>4, BoundedInduction
<1>6. N \in done
  BY <1>1, <1>5
<1> DEFINE g == CHOOSE f : Defines(f, N)
<1>7. Defines(g, N)
  <2> HIDE DEF Defines
  <2> QED  BY <1>6 DEF done
<1> HIDE DEF g
<1>8. \A n \in 0 .. N : g[n] = IF n = 0 THEN zero ELSE F(g[n - 1], n)
  BY <1>7, Zenon
<1>9. g[0] = zero /\ \A n \in 1 .. N : g[n] = F(g[n - 1], n)
  <2>1. 0 \in 0 .. N /\ \A n \in 1 .. N : n \in 0 .. N /\ n # 0
    BY <1>1
  <2> QED  BY <1>8, <2>1
<1>10. ReachableFromSelected(edges, selected) = g[N]
  BY <1>2 DEF g
<1> QED  BY <1>9, <1>10 DEF N, F, zero

\* A list of different ids with one more.
LEMMA AppendDistinct ==
    ASSUME NEW q, IsSequence(q), DistinctIds(q), NEW x, \A y \in ToSet(q) : y.id # x.id
    PROVE  DistinctIds(Append(q, x))
<1> DEFINE S == ToSet(q) \cup {x}
<1>1. q \in Seq(S) /\ x \in S
  BY DEF IsSequence
<1> HIDE DEF S
<1> QED  BY <1>1, AppendMembers

\* What is noted of some ids is what was not known.
FoundAt(ids, depth) == {[id |-> id, depth |-> depth] : id \in ids}
LEMMA IdsWithEntries ==
    ASSUME NEW q, NEW found, NEW ids, NEW depth, ToSet(q) = ToSet(found) \cup FoundAt(ids, depth)
    PROVE  EntryIds(q) = EntryIds(found) \cup ids
<1>1. ASSUME NEW id \in ids PROVE id \in EntryIds(q)
  <2>1. [id |-> id, depth |-> depth] \in ToSet(q) /\ [id |-> id, depth |-> depth].id = id
    BY DEF FoundAt
  <2> QED  BY <2>1 DEF EntryIds
<1>2. EntryIds(found) \subseteq EntryIds(q)
  BY DEF EntryIds
<1>3. EntryIds(q) \subseteq EntryIds(found) \cup ids
  BY DEF EntryIds, FoundAt
<1> QED  BY <1>1, <1>2, <1>3

LEMMA NotedAreNew ==
    ASSUME NEW found, IsSequence(found), DistinctIds(found), NEW root, NEW ids, IsSequence(ids),
           NEW depth
    PROVE  LET q == NotedAll(found, root, ids, depth)
           IN  /\ IsSequence(q) /\ DistinctIds(q)
               /\ ToSet(q) = ToSet(found)
                             \cup FoundAt(ToSet(ids) \ ({root} \cup EntryIds(found)), depth)
<1> DEFINE N == Len(ids)
           known == {root} \cup EntryIds(found)
           Right(q, n) == /\ IsSequence(q) /\ DistinctIds(q)
                          /\ ToSet(q) = ToSet(found) \cup FoundAt(FirstPart(ids, n) \ known, depth)
<1>1. N \in Nat /\ DOMAIN ids = 1 .. N
  BY OwnMembers DEF IsSequence
<1>2. PICK h : /\ h[0] = found /\ NotedAll(found, root, ids, depth) = h[N]
               /\ \A n \in 1 .. N : h[n] = Noted(h[n - 1], root, [id |-> ids[n], depth |-> depth])
  BY <1>1, NotedUnfolds
<1> DEFINE done == {n \in 0 .. N : Right(h[n], n)}
<1>3. 0 \in done
  <2>1. FirstPart(ids, 0) \ known = {}
    BY DEF FirstPart
  <2>2. FoundAt({}, depth) = {}
    BY DEF FoundAt
  <2>3. Right(h[0], 0)
    BY <1>2, <2>1, <2>2, Zenon
  <2> HIDE DEF Right
  <2> QED  BY <1>1, <2>3
<1>4. ASSUME NEW n \in 1 .. N, n - 1 \in done PROVE n \in done
  <2> DEFINE q == h[n - 1]
             x == [id |-> ids[n], depth |-> depth]
             first == FirstPart(ids, n - 1)
  <2>1. Right(q, n - 1) /\ h[n] = Noted(q, root, x)
    BY <1>2, <1>4
  <2>2. FirstPart(ids, n) = first \cup {ids[n]}
    BY DEF FirstPart
  <2>3. EntryIds(q) = EntryIds(found) \cup (first \ known)
    <3>1. ToSet(q) = ToSet(found) \cup FoundAt(first \ known, depth)
      BY <2>1
    <3> HIDE DEF q, known, first
    <3> QED  BY <3>1, IdsWithEntries
  <2>4. x.id = ids[n]
    OBVIOUS
  <2> HIDE DEF q, first
  <2>5. CASE ids[n] \in {root} \cup EntryIds(q)
    <3>1. h[n] = q
      BY <2>1, <2>4, <2>5 DEF Noted
    <3>2. FirstPart(ids, n) \ known = first \ known
      BY <2>2, <2>3, <2>5
    <3>3. Right(h[n], n)
      BY <2>1, <3>1, <3>2, Zenon DEF first
    <3> HIDE DEF Right
    <3> QED  BY <1>1, <3>3
  <2>6. CASE ids[n] \notin {root} \cup EntryIds(q)
    <3>1. h[n] = Append(q, x)
      BY <2>1, <2>4, <2>6 DEF Noted
    <3>2. IsSequence(Append(q, x)) /\ ToSet(Append(q, x)) = ToSet(q) \cup {x}
      BY <2>1, AppendOwn
    <3>3. \A y \in ToSet(q) : y.id # x.id
      BY <2>4, <2>6 DEF EntryIds
    <3>4. DistinctIds(Append(q, x))
      BY <2>1, <3>3, AppendDistinct
    <3>5. ids[n] \notin known /\ FirstPart(ids, n) \ known = (first \ known) \cup {ids[n]}
      BY <2>2, <2>3, <2>6
    <3>6. FoundAt(FirstPart(ids, n) \ known, depth) = FoundAt(first \ known, depth) \cup {x}
      BY <3>5 DEF FoundAt
    <3> HIDE DEF known, x
    <3>7. ToSet(h[n]) = ToSet(found) \cup FoundAt(FirstPart(ids, n) \ known, depth)
      BY <2>1, <3>1, <3>2, <3>6 DEF first
    <3>8. Right(h[n], n)
      BY <3>1, <3>2, <3>4, <3>7, Zenon
    <3> HIDE DEF Right
    <3> QED  BY <1>1, <3>8
  <2> QED  BY <2>5, <2>6
<1> HIDE DEF done
<1>5. 0 .. N \subseteq done
  BY <1>1, <1>3, <1>4, BoundedInduction
<1>6. Right(h[N], N)
  <2> HIDE DEF Right
  <2>1. N \in done
    BY <1>1, <1>5
  <2> QED  BY <2>1 DEF done
<1>7. FirstPart(ids, N) = ToSet(ids)
  BY <1>1 DEF FirstPart, ToSet
<1> QED  BY <1>2, <1>6, <1>7

\* The neighbours of some entries.
AllBeside(neighbours, ids) == UNION {ToSet(neighbours[id]) : id \in ids}
LEMMA BesideAreNeighbours ==
    ASSUME NEW neighbours, NEW entries, IsSequence(entries),
           \A e \in ToSet(entries) : IsSequence(neighbours[e.id])
    PROVE  /\ IsSequence(BesideAll(neighbours, entries))
           /\ ToSet(BesideAll(neighbours, entries)) = AllBeside(neighbours, EntryIds(entries))
<1> DEFINE N == Len(entries)
           ss == [i \in 1 .. N |-> neighbours[entries[i].id]]
<1>1. N \in Nat /\ DOMAIN entries = 1 .. N /\ \A i \in 1 .. N : entries[i] \in ToSet(entries)
  BY OwnMembers DEF IsSequence
<1>2. ss = [i \in 1 .. N |-> ss[i]] /\ \A i \in 1 .. N : IsSequence(ss[i])
  BY <1>1
<1>3. \A i \in 1 .. N : ss[i] = neighbours[entries[i].id]
  OBVIOUS
<1>4. BesideAll(neighbours, entries) = FlattenSeq(ss)
  BY DEF BesideAll
<1> HIDE DEF ss
<1>5. /\ IsSequence(FlattenSeq(ss))
      /\ \A x : x \in ToSet(FlattenSeq(ss)) <=> \E j \in 1 .. N : x \in ToSet(ss[j])
  BY <1>1, <1>2, FlatHolds
<1>6. EntryIds(entries) = {entries[j].id : j \in 1 .. N}
  BY <1>1 DEF EntryIds, ToSet
<1>7. \A x : x \in AllBeside(neighbours, EntryIds(entries))
                 <=> \E j \in 1 .. N : x \in ToSet(neighbours[entries[j].id])
  BY <1>6 DEF AllBeside
<1> QED  BY <1>3, <1>4, <1>5, <1>7

\* What is within a depth is found: what is a step beyond has a neighbour among what
\* was found last, the neighbours of the others being known.
IsCollected(V, neighbours, root, found, within, depth) ==
    /\ IsSequence(found) /\ DistinctIds(found)
    /\ EntryIds(found) = within \ {root} /\ root \in within /\ within \subseteq V
    /\ \A e \in ToSet(found) : e.depth \in 1 .. depth
    /\ \A id \in within : \/ id \in EntryIds(FoundLast(found, root, depth))
                          \/ ToSet(neighbours[id]) \subseteq within

LEMMA LastIsKnown ==
    ASSUME NEW V, NEW neighbours, NEW root, NEW found, NEW within, NEW depth \in Nat,
           IsCollected(V, neighbours, root, found, within, depth)
    PROVE  /\ IsSequence(FoundLast(found, root, depth))
           /\ EntryIds(FoundLast(found, root, depth)) \subseteq within
<1> DEFINE F == FoundLast(found, root, depth)
           x == [id |-> root, depth |-> 0]
<1>1. CASE depth = 0
  <2>1. F = <<x>>
    BY <1>1 DEF FoundLast
  <2>2. IsSequence(<<x>>) /\ ToSet(<<x>>) = {x}
    BY DEF IsSequence, ToSet
  <2>3. EntryIds(F) = {x.id} /\ x.id = root
    BY <2>1, <2>2 DEF EntryIds
  <2> QED  BY <2>1, <2>2, <2>3 DEF IsCollected
<1>2. CASE depth # 0
  <2> DEFINE latest == {e \in ToSet(found) : e.depth = depth}
  <2>1. F = Only(found, latest)
    BY <1>2 DEF FoundLast
  <2> HIDE DEF latest
  <2>2. IsSequence(F) /\ ToSet(F) = ToSet(found) \cap latest
    BY <2>1, OnlyOwn DEF IsCollected
  <2> QED  BY <2>2 DEF IsCollected, EntryIds
<1> QED  BY <1>1, <1>2

LEMMA NextIsCollected ==
    ASSUME NEW V, NEW neighbours \in [V -> Seq(V)], NEW root, NEW found, NEW within, NEW depth \in Nat \ {0},
           IsCollected(V, neighbours, root, found, within, depth - 1)
    PROVE  IsCollected(V, neighbours, root, NextDepth(neighbours, root, found, depth),
                       StepFurther(neighbours, within), depth)
<1> DEFINE F == FoundLast(found, root, depth - 1)
           ids == BesideAll(neighbours, F)
           fresh == ToSet(ids) \ ({root} \cup EntryIds(found))
           q == NextDepth(neighbours, root, found, depth)
           W == StepFurther(neighbours, within)
<1>1. depth - 1 \in Nat /\ IsSequence(found) /\ DistinctIds(found) /\ root \in within
      /\ EntryIds(found) = within \ {root} /\ within \subseteq V
  BY DEF IsCollected
<1>2. IsSequence(F) /\ EntryIds(F) \subseteq within
  BY <1>1, LastIsKnown
<1> HIDE DEF F
<1>3. ASSUME NEW id \in V PROVE IsSequence(neighbours[id]) /\ ToSet(neighbours[id]) \subseteq V
  <2>1. neighbours[id] \in Seq(V)
    OBVIOUS
  <2> QED  BY <2>1, OwnMembers
<1>4. \A e \in ToSet(F) : e.id \in V
  BY <1>1, <1>2 DEF EntryIds
<1>5. IsSequence(ids) /\ ToSet(ids) = AllBeside(neighbours, EntryIds(F))
  BY <1>2, <1>3, <1>4, BesideAreNeighbours
<1> HIDE DEF ids
<1>6. q = NotedAll(found, root, ids, depth)
  BY DEF NextDepth, ids, F
<1> HIDE DEF q
<1>7. IsSequence(q) /\ DistinctIds(q) /\ ToSet(q) = ToSet(found) \cup FoundAt(fresh, depth)
  BY <1>1, <1>5, <1>6, NotedAreNew
<1>8. fresh = ToSet(ids) \ within
  BY <1>1
<1> HIDE DEF fresh
<1>9. EntryIds(q) = EntryIds(found) \cup fresh
  BY <1>7, IdsWithEntries
<1>10. \A id \in within : id \in EntryIds(F) \/ ToSet(neighbours[id]) \subseteq within
  BY DEF IsCollected, F
<1>11. W = within \cup fresh
  <2>1. ToSet(ids) \subseteq AllBeside(neighbours, within)
    BY <1>2, <1>5 DEF AllBeside
  <2>2. AllBeside(neighbours, within) \subseteq within \cup ToSet(ids)
    BY <1>5, <1>10 DEF AllBeside
  <2>3. W = within \cup AllBeside(neighbours, within)
    BY DEF StepFurther, AllBeside
  <2> QED  BY <1>8, <2>1, <2>2, <2>3
<1>12. ToSet(ids) \subseteq V
  BY <1>1, <1>2, <1>3, <1>5 DEF AllBeside
<1> HIDE DEF W
<1>13. EntryIds(q) = W \ {root} /\ root \in W /\ W \subseteq V
  BY <1>1, <1>8, <1>9, <1>11, <1>12
<1>14. \A e \in ToSet(q) : e.depth \in 1 .. depth
  <2>1. \A e \in ToSet(found) : e.depth \in 1 .. depth - 1
    BY DEF IsCollected
  <2>2. \A e \in FoundAt(fresh, depth) : e.depth = depth
    BY DEF FoundAt
  <2> QED  BY <1>7, <2>1, <2>2
<1>15. fresh \subseteq EntryIds(FoundLast(q, root, depth))
  <2> DEFINE latest == {e \in ToSet(q) : e.depth = depth}
  <2>1. FoundLast(q, root, depth) = Only(q, latest)
    BY DEF FoundLast
  <2>2. ToSet(Only(q, latest)) = ToSet(q) \cap latest
    BY <1>7, OnlyOwn
  <2>3. ToSet(FoundLast(q, root, depth)) = latest
    BY <2>1, <2>2
  <2> SUFFICES ASSUME NEW id \in fresh PROVE id \in EntryIds(FoundLast(q, root, depth))
    OBVIOUS
  <2> DEFINE e == [id |-> id, depth |-> depth]
  <2>4. e \in ToSet(q) /\ e.depth = depth /\ e.id = id
    BY <1>7 DEF FoundAt
  <2>5. e \in ToSet(FoundLast(q, root, depth))
    BY <2>3, <2>4
  <2> HIDE DEF e
  <2> QED  BY <2>4, <2>5 DEF EntryIds
<1>16. ASSUME NEW id \in W
       PROVE  id \in EntryIds(FoundLast(q, root, depth)) \/ ToSet(neighbours[id]) \subseteq W
  <2>1. id \in EntryIds(F) => ToSet(neighbours[id]) \subseteq W
    BY <1>5, <1>8, <1>11 DEF AllBeside
  <2> QED  BY <1>10, <1>11, <1>15, <2>1
<1>17. IsCollected(V, neighbours, root, q, W, depth)
  BY <1>7, <1>13, <1>14, <1>16 DEF IsCollected
<1> QED  BY <1>17 DEF q, W

TakesSteps(w, neighbours, root, most) ==
    /\ w[0] = Alone(root) /\ WithinSteps(neighbours, root, most) = w[most]
    /\ \A n \in 1 .. most : w[n] = StepFurther(neighbours, w[n - 1])
LEMMA StepsAreTaken ==
    ASSUME NEW neighbours, NEW root, NEW most \in Nat
    PROVE  \E w : TakesSteps(w, neighbours, root, most)
BY StepsUnfold DEF TakesSteps

LEMMA CollectedAreWithin ==
    ASSUME NEW V, NEW neighbours \in [V -> Seq(V)], NEW root \in V, NEW most \in Nat
    PROVE  LET found == CollectDependencyIdsByDepth(neighbours, root, most)
               within == WithinSteps(neighbours, root, most)
           IN  /\ IsSequence(found) /\ DistinctIds(found)
               /\ EntryIds(found) = within \ {root} /\ within \subseteq V
<1>1. PICK h : /\ h[0] = <<>> /\ CollectDependencyIdsByDepth(neighbours, root, most) = h[most]
               /\ \A n \in 1 .. most : h[n] = NextDepth(neighbours, root, h[n - 1], n)
  <2>1. PICK r : r = CollectDependencyIdsByDepth(neighbours, root, most)
    OBVIOUS
  <2> QED  BY <2>1, DepthsUnfold
<1>0. PICK w : TakesSteps(w, neighbours, root, most)
  BY StepsAreTaken
<1>2. /\ w[0] = Alone(root) /\ WithinSteps(neighbours, root, most) = w[most]
      /\ \A n \in 1 .. most : w[n] = StepFurther(neighbours, w[n - 1])
  BY <1>0 DEF TakesSteps
<1> DEFINE done == {n \in 0 .. most : IsCollected(V, neighbours, root, h[n], w[n], n)}
<1>3. 0 \in done
  <2> DEFINE x == [id |-> root, depth |-> 0]
             none == <<>>
  <2>1. IsSequence(none) /\ ToSet(none) = {} /\ DistinctIds(none)
    BY DEF IsSequence, ToSet, DistinctIds
  <2>2. EntryIds(none) = {}
    BY <2>1 DEF EntryIds
  <2>3. FoundLast(none, root, 0) = <<x>> /\ ToSet(<<x>>) = {x} /\ x.id = root
    BY DEF FoundLast, ToSet
  <2> HIDE DEF x, none
  <2>4. EntryIds(FoundLast(none, root, 0)) = {root}
    BY <2>3 DEF EntryIds
  <2>5. IsCollected(V, neighbours, root, none, {root}, 0)
    BY <2>1, <2>2, <2>4 DEF IsCollected
  <2>6. IsCollected(V, neighbours, root, h[0], w[0], 0)
    BY <1>1, <1>2, <2>5, Zenon DEF none, Alone
  <2> QED  BY <2>6
<1>4. ASSUME NEW n \in 1 .. most, n - 1 \in done PROVE n \in done
  <2>1. IsCollected(V, neighbours, root, h[n - 1], w[n - 1], n - 1) /\ n \in Nat \ {0}
    BY <1>4
  <2>2. IsCollected(V, neighbours, root, NextDepth(neighbours, root, h[n - 1], n),
                    StepFurther(neighbours, w[n - 1]), n)
    BY <2>1, NextIsCollected
  <2> QED  BY <1>1, <1>2, <2>2
<1> HIDE DEF done
<1>5. 0 .. most \subseteq done
  BY <1>3, <1>4, BoundedInduction
<1>6. IsCollected(V, neighbours, root, h[most], w[most], most)
  BY <1>5 DEF done
<1> QED  BY <1>1, <1>2, <1>6 DEF IsCollected

\* A rank is one more than what came before it.
LEMMA RankedAreShown ==
    ASSUME NEW g, NEW V, NEW towards \in [V -> Seq(V)], NEW found, IsSequence(found),
           EntryIds(found) \subseteq V
    PROVE  LET rank == Ranks(g, found, towards)
           IN  /\ DOMAIN rank = {id \in EntryIds(found) : ~IsTestNode(g, id)}
               /\ \A id \in DOMAIN rank : rank[id] \in 1 .. Len(found)
<1> DEFINE N == Len(found)
           IdsTo(n) == {found[i].id : i \in 1 .. n}
           Right(rank, n) == /\ DOMAIN rank = {id \in IdsTo(n) : ~IsTestNode(g, id)}
                             /\ \A id \in DOMAIN rank : rank[id] \in 1 .. n
<1>1. N \in Nat /\ DOMAIN found = 1 .. N
  BY OwnMembers DEF IsSequence
<1>2. PICK h : /\ h[0] = <<>> /\ Ranks(g, found, towards) = h[N]
               /\ \A n \in 1 .. N : h[n] = WithRank(g, h[n - 1], found[n].id, towards[found[n].id])
  BY <1>1, RanksUnfold
<1> DEFINE done == {n \in 0 .. N : Right(h[n], n)}
<1>3. 0 \in done
  <2>1. DOMAIN <<>> = {} /\ IdsTo(0) = {}
    OBVIOUS
  <2>2. Right(h[0], 0)
    BY <1>2, <2>1
  <2> HIDE DEF Right
  <2> QED  BY <1>1, <2>2
<1>4. ASSUME NEW n \in 1 .. N, n - 1 \in done PROVE n \in done
  <2> DEFINE rank == h[n - 1]
             id == found[n].id
             beside == towards[id]
             A == {0} \cup {rank[m] : m \in DOMAIN rank \cap ToSet(beside)}
  <2>1. Right(rank, n - 1) /\ h[n] = WithRank(g, rank, id, beside)
    BY <1>2, <1>4
  <2>2. IdsTo(n) = IdsTo(n - 1) \cup {id}
    OBVIOUS
  <2> HIDE DEF rank, id, IdsTo
  <2>3. CASE IsTestNode(g, id)
    <3>1. h[n] = rank
      BY <2>1, <2>3 DEF WithRank
    <3>2. Right(h[n], n)
      BY <2>1, <2>2, <2>3, <3>1
    <3> HIDE DEF Right
    <3> QED  BY <1>1, <3>2
  <2>4. CASE ~IsTestNode(g, id)
    <3>1. A \in SUBSET (0 .. n - 1) /\ A # {} /\ n - 1 \in Nat
      BY <2>1
    <3> HIDE DEF A
    <3>2. Max(A) \in 0 .. n - 1
      BY <3>1, LargestIn
    <3>3. OneAbove(rank, beside) = 1 + Max(A)
      BY DEF OneAbove, A
    <3>4. OneAbove(rank, beside) \in 1 .. n
      BY <3>2, <3>3
    <3> DEFINE next == [m \in DOMAIN rank \cup {id} |-> IF m = id THEN OneAbove(rank, beside) ELSE rank[m]]
    <3>5. h[n] = next
      BY <2>1, <2>4 DEF WithRank
    <3>6. DOMAIN next = {m \in IdsTo(n) : ~IsTestNode(g, m)}
      BY <2>1, <2>2, <2>4
    <3>7. \A m \in DOMAIN next : next[m] \in 1 .. n
      BY <2>1, <3>4
    <3> HIDE DEF next
    <3>8. Right(h[n], n)
      BY <3>5, <3>6, <3>7
    <3> HIDE DEF Right
    <3> QED  BY <1>1, <3>8
  <2> QED  BY <2>3, <2>4
<1> HIDE DEF done
<1>5. 0 .. N \subseteq done
  BY <1>1, <1>3, <1>4, BoundedInduction
<1>6. Right(h[N], N)
  <2> HIDE DEF Right
  <2>1. N \in done
    BY <1>1, <1>5
  <2> QED  BY <2>1 DEF done
<1>7. IdsTo(N) = EntryIds(found)
  BY <1>1 DEF EntryIds, ToSet
<1> QED  BY <1>2, <1>6, <1>7

\* Columns show what their lists hold, and no list holds an id twice.
AreDrawn(columns, shown) ==
    /\ IsSequence(columns) /\ Len(columns) \in Nat \ {0}
    /\ \A i \in 1 .. Len(columns) :
           /\ columns[i] = [column |-> columns[i].column, resources |-> columns[i].resources]
           /\ IsSequence(columns[i].resources) /\ DistinctIds(columns[i].resources)
    /\ shown = UNION {EntryIds(columns[i].resources) : i \in 1 .. Len(columns)}

LEMMA SortedEntries ==
    ASSUME NEW q, IsSequence(q), DistinctIds(q), NEW earlier
    PROVE  /\ IsSequence(Sorted(q, earlier)) /\ DistinctIds(Sorted(q, earlier))
           /\ EntryIds(Sorted(q, earlier)) = EntryIds(q)
<1>1. q \in Seq(ToSet(q))
  BY DEF IsSequence
<1>2. /\ Sorted(q, earlier) \in Seq(ToSet(q)) /\ ToSet(Sorted(q, earlier)) = ToSet(q)
      /\ DistinctIds(Sorted(q, earlier))
  BY <1>1, SortedKeeps
<1>3. IsSequence(Sorted(q, earlier))
  BY <1>2 DEF IsSequence
<1> QED  BY <1>2, <1>3 DEF EntryIds

\* What stands in a column is what has its rank.
RankedAt(rank, n) == {id \in DOMAIN rank : rank[id] = n}
LEMMA KeptAtRank ==
    ASSUME NEW found, IsSequence(found), DistinctIds(found),
           NEW rank, DOMAIN rank \subseteq EntryIds(found), NEW kept, NEW n,
           \A e \in ToSet(found) : e \in kept <=> e.id \in RankedAt(rank, n)
    PROVE  /\ IsSequence(Only(found, kept)) /\ DistinctIds(Only(found, kept))
           /\ EntryIds(Only(found, kept)) = RankedAt(rank, n)
<1>1. /\ IsSequence(Only(found, kept)) /\ DistinctIds(Only(found, kept))
      /\ ToSet(Only(found, kept)) = ToSet(found) \cap kept
  BY OnlyOwn
<1>2. EntryIds(Only(found, kept)) = {e.id : e \in ToSet(found) \cap kept}
  BY <1>1 DEF EntryIds
<1>3. RankedAt(rank, n) \subseteq {e.id : e \in ToSet(found)}
  BY DEF RankedAt, EntryIds
<1> QED  BY <1>1, <1>2, <1>3

RanksIn(resource, upRank, downRank, n) ==
    IF n = 0 THEN {resource}
    ELSE IF n < 0 THEN RankedAt(upRank, -n) ELSE RankedAt(downRank, n)
LEMMA InColumnIsRanked ==
    ASSUME NEW resource, NEW up, IsSequence(up), DistinctIds(up), NEW down, IsSequence(down),
           DistinctIds(down), NEW upRank, DOMAIN upRank \subseteq EntryIds(up),
           \A id \in DOMAIN upRank : upRank[id] \in 1 .. Len(up),
           NEW downRank, DOMAIN downRank \subseteq EntryIds(down),
           \A id \in DOMAIN downRank : downRank[id] \in 1 .. Len(down),
           NEW column \in Int
    PROVE  LET q == InColumn(resource, up, down, upRank, downRank, column)
           IN  /\ IsSequence(q) /\ DistinctIds(q)
               /\ EntryIds(q) = RanksIn(resource, upRank, downRank, column)
<1> DEFINE q == InColumn(resource, up, down, upRank, downRank, column)
           above == {e \in ToSet(up) : e.id \in DOMAIN upRank /\ -upRank[e.id] = column}
           below == {e \in ToSet(down) : e.id \in DOMAIN downRank /\ downRank[e.id] = column}
           x == [id |-> resource, depth |-> 0]
<1>0. /\ \A id \in DOMAIN upRank : upRank[id] \in Int
      /\ Len(up) \in Nat /\ Len(down) \in Nat
  BY OwnMembers DEF IsSequence
<1>1. CASE column = 0
  <2>1. q = <<x>>
    BY <1>1 DEF InColumn
  <2>2. IsSequence(<<x>>) /\ DistinctIds(<<x>>) /\ ToSet(<<x>>) = {x}
    BY DEF IsSequence, ToSet, DistinctIds
  <2>3. EntryIds(q) = {x.id} /\ x.id = resource
    BY <2>1, <2>2 DEF EntryIds
  <2> HIDE DEF q, x
  <2> QED  BY <1>1, <2>1, <2>2, <2>3 DEF q, RanksIn
<1>2. CASE column < 0
  <2>1. q = Only(up, above)
    BY <1>2 DEF InColumn
  <2>2. \A e \in ToSet(up) : e \in above <=> e.id \in RankedAt(upRank, -column)
    BY <1>0 DEF RankedAt
  <2> HIDE DEF q, above
  <2>3. IsSequence(q) /\ DistinctIds(q) /\ EntryIds(q) = RankedAt(upRank, -column)
    BY <2>1, <2>2, KeptAtRank
  <2> QED  BY <1>2, <2>3 DEF q, RanksIn
<1>3. CASE column > 0
  <2>1. q = Only(down, below)
    BY <1>3 DEF InColumn
  <2>2. \A e \in ToSet(down) : e \in below <=> e.id \in RankedAt(downRank, column)
    BY DEF RankedAt
  <2> HIDE DEF q, below
  <2>3. IsSequence(q) /\ DistinctIds(q) /\ EntryIds(q) = RankedAt(downRank, column)
    BY <2>1, <2>2, KeptAtRank
  <2> QED  BY <1>3, <2>3 DEF q, RanksIn
<1> QED  BY <1>1, <1>2, <1>3

LEMMA ColumnsAreDrawn ==
    ASSUME NEW g, NEW resource, NEW up, IsSequence(up), DistinctIds(up), NEW down, IsSequence(down),
           DistinctIds(down), NEW upRank, DOMAIN upRank \subseteq EntryIds(up),
           \A id \in DOMAIN upRank : upRank[id] \in 1 .. Len(up),
           NEW downRank, DOMAIN downRank \subseteq EntryIds(down),
           \A id \in DOMAIN downRank : downRank[id] \in 1 .. Len(down)
    PROVE  AreDrawn(ColumnsOf(g, resource, up, down, upRank, downRank),
                    {resource} \cup DOMAIN upRank \cup DOMAIN downRank)
<1> DEFINE a == Len(up)
           b == Len(down)
           span == [i \in 1 .. a + 1 + b |-> i - 1 - a]
           given == ColumnNumbers(upRank, downRank)
           numbers == Only(span, given)
           In(column) == InColumn(resource, up, down, upRank, downRank, column)
           Ordered(q) == Sorted(q, {pair \in Pairs(q) : PrecedesInColumn(g, pair[1], pair[2])})
           columns == ColumnsOf(g, resource, up, down, upRank, downRank)
           N == Len(numbers)
           IdsIn(column) == EntryIds(In(column))
           shown == {resource} \cup DOMAIN upRank \cup DOMAIN downRank
<1>1. a \in Nat /\ b \in Nat
  BY OwnMembers DEF IsSequence
<1>2. /\ \A id \in DOMAIN upRank : upRank[id] \in 1 .. a
      /\ \A id \in DOMAIN downRank : downRank[id] \in 1 .. b
  OBVIOUS
<1>3. columns = [i \in 1 .. N |-> [column |-> numbers[i], resources |-> Ordered(In(numbers[i]))]]
  BY DEF ColumnsOf
<1> HIDE DEF a, b, columns
<1>4. given \subseteq -a .. b /\ 0 \in given
  BY <1>1, <1>2 DEF ColumnNumbers
<1>5. IsSequence(span) /\ ToSet(span) = -a .. b
  <2>1. a + 1 + b \in Nat /\ span = [i \in 1 .. a + 1 + b |-> span[i]]
    BY <1>1
  <2>2. IsSequence(span) /\ DOMAIN span = 1 .. a + 1 + b
    BY <2>1, OfPlaces
  <2>3. ASSUME NEW n \in -a .. b PROVE n \in ToSet(span)
    <3>1. n + 1 + a \in 1 .. a + 1 + b /\ (n + 1 + a) - 1 - a = n
      BY <1>1
    <3>2. span[n + 1 + a] = n
      BY <3>1
    <3> QED  BY <2>2, <3>1, <3>2 DEF ToSet
  <2>4. ToSet(span) \subseteq -a .. b
    BY <1>1, <2>2 DEF ToSet
  <2> QED  BY <2>2, <2>3, <2>4
<1> HIDE DEF span, given
<1>6. IsSequence(numbers) /\ ToSet(numbers) = given
  <2>1. IsSequence(numbers) /\ ToSet(numbers) = ToSet(span) \cap given
    BY <1>5, OnlyOwn
  <2> QED  BY <1>4, <1>5, <2>1
<1> HIDE DEF numbers
<1>7. N \in Nat /\ DOMAIN numbers = 1 .. N /\ \A i \in 1 .. N : numbers[i] \in given
  BY <1>6, OwnMembers DEF IsSequence
<1>8. \A n \in given : \E i \in 1 .. N : numbers[i] = n
  BY <1>6, <1>7 DEF ToSet
<1>9. N # 0
  <2>1. PICK i \in 1 .. N : numbers[i] = 0
    BY <1>4, <1>8
  <2> QED  BY <1>7
<1>10. ASSUME NEW n \in given
       PROVE  IsSequence(In(n)) /\ DistinctIds(In(n))
              /\ IdsIn(n) = IF n = 0 THEN {resource}
                          ELSE IF n < 0 THEN RankedAt(upRank, -n) ELSE RankedAt(downRank, n)
  <2>1. n \in Int
    BY <1>1, <1>4
  <2> HIDE DEF given
  <2>2. /\ \A id \in DOMAIN upRank : upRank[id] \in 1 .. Len(up)
        /\ \A id \in DOMAIN downRank : downRank[id] \in 1 .. Len(down)
    OBVIOUS
  <2> DEFINE q == InColumn(resource, up, down, upRank, downRank, n)
  <2>3. /\ IsSequence(q) /\ DistinctIds(q)
        /\ EntryIds(q) = RanksIn(resource, upRank, downRank, n)
    <3> HIDE DEF In, IdsIn, columns, numbers, N, shown
    <3>1. /\ IsSequence(up) /\ DistinctIds(up) /\ IsSequence(down) /\ DistinctIds(down)
          /\ DOMAIN upRank \subseteq EntryIds(up) /\ DOMAIN downRank \subseteq EntryIds(down)
      OBVIOUS
    <3> QED  BY ONLY <2>1, <2>2, <3>1, InColumnIsRanked
  <2>4. q = In(n) /\ IdsIn(n) = EntryIds(q)
    OBVIOUS
  <2> HIDE DEF q, In, IdsIn
  <2> QED  BY <2>3, <2>4 DEF RanksIn
<1> HIDE DEF In
<1>11. ASSUME NEW i \in 1 .. N
       PROVE  /\ IsSequence(columns[i].resources) /\ DistinctIds(columns[i].resources)
              /\ EntryIds(columns[i].resources) = IdsIn(numbers[i])
              /\ columns[i] = [column |-> columns[i].column, resources |-> columns[i].resources]
  <2>1. columns[i] = [column |-> numbers[i], resources |-> Ordered(In(numbers[i]))]
    BY <1>3
  <2>2. IsSequence(In(numbers[i])) /\ DistinctIds(In(numbers[i]))
    BY <1>7, <1>10
  <2> QED  BY <2>1, <2>2, SortedEntries
<1>12. IsSequence(columns) /\ Len(columns) = N
  <2> HIDE DEF N, Ordered
  <2>1. columns = [i \in 1 .. N |-> columns[i]]
    BY <1>3
  <2> QED  BY <1>7, <2>1, OfPlaces
<1> HIDE DEF N
<1>13. \A n \in given : IdsIn(n) \subseteq shown
  BY <1>10 DEF RankedAt
<1>14. ASSUME NEW id \in shown PROVE \E n \in given : id \in IdsIn(n)
  <2>1. CASE id = resource
    BY <1>4, <1>10, <2>1
  <2>2. CASE id \in DOMAIN upRank
    <3>1. upRank[id] \in 1 .. a /\ -upRank[id] \in given
      BY <1>2, <2>2 DEF given, ColumnNumbers
    <3> DEFINE n == -upRank[id]
    <3>2. n < 0 /\ -n = upRank[id] /\ n # 0 /\ n \in given
      BY <1>1, <3>1
    <3> HIDE DEF n
    <3>3. id \in IdsIn(n)
      BY <1>10, <2>2, <3>2 DEF RankedAt
    <3> QED  BY <3>2, <3>3
  <2>3. CASE id \in DOMAIN downRank
    <3>1. downRank[id] \in 1 .. b /\ downRank[id] \in given
      BY <1>2, <2>3 DEF given, ColumnNumbers
    <3> DEFINE n == downRank[id]
    <3>2. ~(n < 0) /\ n # 0 /\ n \in given
      BY <1>1, <3>1
    <3>3. id \in IdsIn(n)
      BY <1>10, <2>3, <3>2 DEF RankedAt
    <3> QED  BY <3>2, <3>3
  <2> QED  BY <2>1, <2>2, <2>3
<1> HIDE DEF IdsIn, shown
<1>15. shown = UNION {EntryIds(columns[i].resources) : i \in 1 .. N}
  <2>1. \A i \in 1 .. N : EntryIds(columns[i].resources) \subseteq shown
    BY <1>7, <1>11, <1>13
  <2>2. ASSUME NEW id \in shown PROVE \E i \in 1 .. N : id \in EntryIds(columns[i].resources)
    <3>1. PICK n \in given : id \in IdsIn(n)
      BY <1>14
    <3>2. PICK i \in 1 .. N : numbers[i] = n
      BY <1>8
    <3> QED  BY <1>11, <3>1, <3>2
  <2> QED  BY <2>1, <2>2
<1>16. AreDrawn(columns, shown)
  BY <1>7, <1>9, <1>11, <1>12, <1>15 DEF AreDrawn
<1> QED  BY <1>16 DEF columns, shown

LEMMA ReorderUnfolds ==
    ASSUME NEW graph, NEW columns, Len(Passes(graph, Len(columns))) \in Nat
    PROVE  \E g : /\ g[0] = InFirstPlaces(columns) /\ ReorderGraphColumns(graph, columns) = g[Len(Passes(graph, Len(columns)))].columns
                  /\ \A n \in 1 .. Len(Passes(graph, Len(columns))) : g[n] = Moved(g[n - 1], Passes(graph, Len(columns))[n])
<1> DEFINE N == Len(Passes(graph, Len(columns)))
           zero == InFirstPlaces(columns)
           F(q, n) == Moved(q, Passes(graph, Len(columns))[n])
           Defines(f, m) == f = [n \in 0 .. m |-> IF n = 0 THEN zero ELSE F(f[n - 1], n)]
           done == {m \in 0 .. N : \E f : Defines(f, m)}
<1>1. N \in Nat
  OBVIOUS
<1>2. ReorderGraphColumns(graph, columns) = (CHOOSE f : Defines(f, N))[N].columns
  BY DEF ReorderGraphColumns
<1> HIDE DEF F, N, zero
<1>3. 0 \in done
  <2> DEFINE f == [n \in 0 .. 0 |-> zero]
  <2>1. Defines(f, 0)
    OBVIOUS
  <2> HIDE DEF Defines, f
  <2> QED  BY <1>1, <2>1
<1>4. ASSUME NEW m \in 1 .. N, m - 1 \in done PROVE m \in done
  <2>1. PICK f : Defines(f, m - 1)
    BY <1>4
  <2>2. \A k \in 0 .. m - 1 : f[k] = IF k = 0 THEN zero ELSE F(f[k - 1], k)
    BY <2>1, Zenon
  <2> DEFINE g == [k \in 0 .. m |-> IF k = m THEN F(f[m - 1], m) ELSE f[k]]
  <2>3. g[m] = F(f[m - 1], m) /\ \A k \in 0 .. m - 1 : g[k] = f[k]
    BY <1>1
  <2>4. g = [k \in 0 .. m |-> g[k]]
    OBVIOUS
  <2> HIDE DEF g, Defines
  <2>5. \A k \in 0 .. m : g[k] = IF k = 0 THEN zero ELSE F(g[k - 1], k)
    <3> TAKE k \in 0 .. m
    <3>1. CASE k = m
      <4>1. m # 0 /\ m - 1 \in 0 .. m - 1
        OBVIOUS
      <4> QED  BY <2>3, <3>1, <4>1
    <3>2. CASE k # m
      <4>1. k \in 0 .. m - 1 /\ (k # 0 => k - 1 \in 0 .. m - 1)
        BY <3>2
      <4> QED  BY <2>2, <2>3, <4>1
    <3> QED  BY <3>1, <3>2
  <2>6. Defines(g, m)
    BY <2>4, <2>5 DEF Defines
  <2>7. m \in 0 .. N
    BY <1>1
  <2> QED  BY <2>6, <2>7
<1> HIDE DEF done
<1>5. 0 .. N \subseteq done
  BY <1>1, <1>3, <1>4, BoundedInduction
<1>6. N \in done
  BY <1>1, <1>5
<1> DEFINE g == CHOOSE f : Defines(f, N)
<1>7. Defines(g, N)
  <2> HIDE DEF Defines
  <2> QED  BY <1>6 DEF done
<1> HIDE DEF g
<1>8. \A n \in 0 .. N : g[n] = IF n = 0 THEN zero ELSE F(g[n - 1], n)
  BY <1>7, Zenon
<1>9. g[0] = zero /\ \A n \in 1 .. N : g[n] = F(g[n - 1], n)
  <2>1. 0 \in 0 .. N /\ \A n \in 1 .. N : n \in 0 .. N /\ n # 0
    BY <1>1
  <2> QED  BY <1>8, <2>1
<1>10. ReorderGraphColumns(graph, columns) = g[N].columns
  BY <1>2 DEF g
<1> QED  BY <1>9, <1>10 DEF N, F, zero

\* A move orders one column, whatever it orders it by.
LEMMA MovedIsDrawn ==
    ASSUME NEW state, NEW shown, AreDrawn(state.columns, shown), NEW move
    PROVE  AreDrawn(Moved(state, move).columns, shown)
<1> DEFINE columns == state.columns
           at == move.at
           resources == ByMeanPlace(state, move)
           next == [columns EXCEPT ![at].resources = resources]
           N == Len(columns)
<1>1. Moved(state, move).columns = next
  BY DEF Moved
<1>2. /\ IsSequence(columns) /\ N \in Nat \ {0}
      /\ \A i \in 1 .. N : /\ columns[i] = [column |-> columns[i].column, resources |-> columns[i].resources]
                           /\ IsSequence(columns[i].resources) /\ DistinctIds(columns[i].resources)
      /\ shown = UNION {EntryIds(columns[i].resources) : i \in 1 .. N}
  BY DEF AreDrawn
<1>3. DOMAIN columns = 1 .. N /\ columns = [i \in 1 .. N |-> columns[i]]
  BY <1>2, OwnMembers, LenProperties DEF IsSequence
<1>4. CASE at \in 1 .. N
  <2>1. /\ IsSequence(resources) /\ DistinctIds(resources)
        /\ EntryIds(resources) = EntryIds(columns[at].resources)
    BY <1>2, <1>4, SortedEntries DEF ByMeanPlace
  <2> HIDE DEF resources
  <2>2. next = [i \in 1 .. N |-> next[i]]
    BY <1>3
  <2>3. \A i \in 1 .. N : i # at => next[i] = columns[i]
    BY <1>3
  <2>4. next[at] = [column |-> columns[at].column, resources |-> resources]
    <3>1. next[at] = [columns[at] EXCEPT !.resources = resources]
      BY <1>3, <1>4
    <3>2. PICK c, s : columns[at] = [column |-> c, resources |-> s]
      BY <1>2, <1>4
    <3>3. [columns[at] EXCEPT !.resources = resources] = [column |-> c, resources |-> resources]
      BY <3>2
    <3> QED  BY <3>1, <3>2, <3>3
  <2> HIDE DEF next
  <2>5. IsSequence(next) /\ Len(next) = N
    BY <1>2, <2>2, OfPlaces
  <2>6. ASSUME NEW i \in 1 .. N
        PROVE  /\ next[i] = [column |-> next[i].column, resources |-> next[i].resources]
               /\ IsSequence(next[i].resources) /\ DistinctIds(next[i].resources)
               /\ EntryIds(next[i].resources) = EntryIds(columns[i].resources)
    <3>1. CASE i = at
      BY <2>1, <2>4, <3>1
    <3>2. CASE i # at
      BY <1>2, <2>3, <3>2
    <3> QED  BY <3>1, <3>2
  <2>7. {EntryIds(next[i].resources) : i \in 1 .. N} = {EntryIds(columns[i].resources) : i \in 1 .. N}
    BY <2>6
  <2> HIDE DEF N, columns
  <2>8. AreDrawn(next, shown)
    BY <1>2, <2>5, <2>6, <2>7 DEF AreDrawn
  <2> QED  BY <1>1, <2>8
<1>5. CASE at \notin 1 .. N
  <2>1. next = columns
    BY <1>3, <1>5
  <2> QED  BY <1>1, <2>1
<1> QED  BY <1>4, <1>5

LEMMA ReorderedAreDrawn ==
    ASSUME NEW g, NEW columns, NEW shown, AreDrawn(columns, shown)
    PROVE  AreDrawn(ReorderGraphColumns(g, columns), shown)
<1> DEFINE n == Len(columns)
           right == [i \in 1 .. n - 1 |-> [at |-> i + 1, by |-> g.up, beside |-> i]]
           left == [i \in 1 .. n - 1 |-> [at |-> n - i, by |-> g.down, beside |-> n - i + 1]]
           moves == Passes(g, n)
           N == Len(moves)
<1>1. n - 1 \in Nat
  BY DEF AreDrawn
<1>2. IsSequence(right) /\ IsSequence(left)
  <2>1. right = [i \in 1 .. n - 1 |-> right[i]] /\ left = [i \in 1 .. n - 1 |-> left[i]]
    OBVIOUS
  <2> HIDE DEF right, left
  <2> QED  BY <1>1, <2>1, OfPlaces
<1>3. LET pass == right \o left IN moves = pass \o pass \o pass \o pass
  BY DEF Passes
<1> HIDE DEF right, left, moves
<1>4. IsSequence(right \o left)
  BY <1>2, ConcatOwn
<1>5. IsSequence((right \o left) \o (right \o left))
  BY <1>4, ConcatOwn
<1>6. IsSequence((right \o left) \o (right \o left) \o (right \o left))
  BY <1>4, <1>5, ConcatOwn
<1>7. IsSequence(moves)
  BY <1>3, <1>4, <1>6, ConcatOwn
<1>8. N \in Nat
  BY <1>7, OwnMembers DEF IsSequence
<1>9. PICK h : /\ h[0] = InFirstPlaces(columns) /\ ReorderGraphColumns(g, columns) = h[N].columns
               /\ \A k \in 1 .. N : h[k] = Moved(h[k - 1], moves[k])
  BY <1>8, ReorderUnfolds DEF moves
<1> HIDE DEF N
<1> DEFINE done == {k \in 0 .. N : AreDrawn(h[k].columns, shown)}
<1>10. 0 \in done
  <2>1. InFirstPlaces(columns).columns = columns
    BY DEF InFirstPlaces
  <2> QED  BY <1>8, <1>9, <2>1
<1>11. ASSUME NEW k \in 1 .. N, k - 1 \in done PROVE k \in done
  <2>1. AreDrawn(h[k - 1].columns, shown)
    BY <1>11
  <2>2. AreDrawn(Moved(h[k - 1], moves[k]).columns, shown)
    BY <2>1, MovedIsDrawn
  <2> QED  BY <1>8, <1>9, <2>2
<1> HIDE DEF done
<1>12. 0 .. N \subseteq done
  BY <1>8, <1>10, <1>11, BoundedInduction
<1>13. AreDrawn(h[N].columns, shown)
  BY <1>8, <1>12 DEF done
<1> QED  BY <1>9, <1>13

\* The cards of a column and the columns themselves leave room for each other.
LEMMA GeometryHasRoom ==
    ASSUME NEW mode
    PROVE  LET geo == DisplayModeGeometry(mode)
               wide == geo.width + geo.columnGap
               high == geo.height + geo.rowGap
           IN  /\ geo.width \in Nat /\ geo.height \in Nat /\ wide \in Nat /\ high \in Nat
               /\ geo.padX \in Nat
               /\ \A i, j \in Nat : i < j => (i - 1) * wide + geo.width <= (j - 1) * wide
               /\ \A i, j \in Nat : i < j => (i - 1) * high + geo.height <= (j - 1) * high
               /\ \A i, n \in Nat \ {0} : i <= n =>
                      /\ geo.padX + (i - 1) * wide >= 0
                      /\ geo.padX + (i - 1) * wide + geo.width
                             <= 2 * geo.padX + Extent(n, geo.width, geo.columnGap)
               /\ \A k, c, t \in Nat \ {0} : k <= c /\ c <= t =>
                      LET all == 2 * geo.padY + Extent(t, geo.height, geo.rowGap)
                          top == (all - Extent(c, geo.height, geo.rowGap)) \div 2
                      IN  /\ top \in Int /\ top + (k - 1) * high >= 0
                          /\ top + (k - 1) * high + geo.height <= all
<1> DEFINE geo == DisplayModeGeometry(mode)
           wide == geo.width + geo.columnGap
           high == geo.height + geo.rowGap
<1>1. \A n \in Nat \ {0} : Max({0, n - 1}) = n - 1
  <2> TAKE n \in Nat \ {0}
  <2>1. 0 \in Int /\ n - 1 \in Int /\ (0 >= n - 1 => n - 1 = 0)
    OBVIOUS
  <2> QED  BY <2>1, MaxOfTwo
<1>2. \A size, gap : \A n \in Nat \ {0} : Extent(n, size, gap) = n * size + (n - 1) * gap
  BY <1>1 DEF Extent
<1>3. CASE mode = "summary"
  <2>1. /\ geo.width = 176 /\ geo.height = 64 /\ geo.columnGap = 104 /\ geo.rowGap = 24
        /\ geo.padX = 40 /\ geo.padY = 40
    BY <1>3 DEF DisplayModeGeometry
  <2>2. wide = 280 /\ high = 88
    BY <2>1
  <2>3. \A i, j \in Nat : i < j => (i - 1) * 280 + 176 <= (j - 1) * 280
    OBVIOUS
  <2>4. \A i, j \in Nat : i < j => (i - 1) * 88 + 64 <= (j - 1) * 88
    OBVIOUS
  <2>5. \A i, n \in Nat \ {0} : i <= n =>
            /\ 40 + (i - 1) * 280 >= 0
            /\ 40 + (i - 1) * 280 + 176 <= 2 * 40 + (n * 176 + (n - 1) * 104)
    OBVIOUS
  <2>6. \A k, c, t \in Nat \ {0} : k <= c /\ c <= t =>
            LET all == 2 * 40 + (t * 64 + (t - 1) * 24)
                top == (all - (c * 64 + (c - 1) * 24)) \div 2
            IN  /\ top \in Int /\ top + (k - 1) * 88 >= 0
                /\ top + (k - 1) * 88 + 64 <= all
    OBVIOUS
  <2> HIDE DEF geo
  <2> QED  BY <1>2, <2>1, <2>2, <2>3, <2>4, <2>5, <2>6 DEF geo
<1>4. CASE mode # "summary"
  <2>1. /\ geo.width = 212 /\ geo.height = 80 /\ geo.columnGap = 160 /\ geo.rowGap = 40
        /\ geo.padX = 56 /\ geo.padY = 52
    BY <1>4 DEF DisplayModeGeometry
  <2>2. wide = 372 /\ high = 120
    BY <2>1
  <2>3. \A i, j \in Nat : i < j => (i - 1) * 372 + 212 <= (j - 1) * 372
    OBVIOUS
  <2>4. \A i, j \in Nat : i < j => (i - 1) * 120 + 80 <= (j - 1) * 120
    OBVIOUS
  <2>5. \A i, n \in Nat \ {0} : i <= n =>
            /\ 56 + (i - 1) * 372 >= 0
            /\ 56 + (i - 1) * 372 + 212 <= 2 * 56 + (n * 212 + (n - 1) * 160)
    OBVIOUS
  <2>6. \A k, c, t \in Nat \ {0} : k <= c /\ c <= t =>
            LET all == 2 * 52 + (t * 80 + (t - 1) * 40)
                top == (all - (c * 80 + (c - 1) * 40)) \div 2
            IN  /\ top \in Int /\ top + (k - 1) * 120 >= 0
                /\ top + (k - 1) * 120 + 80 <= all
    OBVIOUS
  <2> HIDE DEF geo
  <2> QED  BY <1>2, <2>1, <2>2, <2>3, <2>4, <2>5, <2>6 DEF geo
<1> QED  BY <1>3, <1>4

\* The canvas is as high as its longest column, and a card has a place in a column.
LEMMA TallestIsLongest ==
    ASSUME NEW columns, NEW shown, AreDrawn(columns, shown)
    PROVE  /\ TallestColumn(columns) \in Nat \ {0}
           /\ \A i \in 1 .. Len(columns) :
                  /\ Len(columns[i].resources) \in Nat
                  /\ Len(columns[i].resources) <= TallestColumn(columns)
<1> DEFINE N == Len(columns)
           v == [i \in 1 .. N |-> Len(columns[i].resources)]
<1>1. N \in Nat /\ \A i \in 1 .. N : v[i] \in Nat /\ v[i] = Len(columns[i].resources)
  BY OwnMembers DEF AreDrawn, IsSequence
<1>2. TallestColumn(columns) = Max({1} \cup {v[i] : i \in 1 .. N})
  BY DEF TallestColumn
<1> HIDE DEF v, N
<1>3. LET S == {1} \cup {v[i] : i \in 1 .. N}
      IN  Max(S) \in Int /\ Max(S) >= 1 /\ \A i \in 1 .. N : Max(S) >= v[i]
  <2>1. \A i \in 1 .. N : v[i] \in Int
    BY <1>1
  <2> QED  BY <1>1, <2>1, LargestOf
<1>4. TallestColumn(columns) \in Int /\ TallestColumn(columns) >= 1
      /\ \A i \in 1 .. N : TallestColumn(columns) >= v[i]
  BY <1>2, <1>3
<1> QED  BY <1>1, <1>4 DEF N

LEMMA CardHasPlace ==
    ASSUME NEW columns, NEW shown, AreDrawn(columns, shown), NEW id \in shown
    PROVE  LET i == ColumnAt(columns, id)
               k == PlaceAt(columns, id)
           IN  /\ i \in 1 .. Len(columns)
               /\ k \in 1 .. Len(columns[i].resources) /\ columns[i].resources[k].id = id
<1> DEFINE N == Len(columns)
           A == {i \in DOMAIN columns : id \in EntryIds(columns[i].resources)}
           at == ColumnAt(columns, id)
           q == columns[at].resources
<1>1. N \in Nat /\ DOMAIN columns = 1 .. N
  BY OwnMembers DEF AreDrawn, IsSequence
<1>2. A # {} /\ A \subseteq 0 .. N
  BY <1>1 DEF AreDrawn
<1>3. Max(A) \in A
  <2> HIDE DEF A
  <2> QED  BY <1>1, <1>2, LargestIn
<1>4. at = Max(A)
  BY DEF ColumnAt
<1> HIDE DEF at
<1>5. at \in 1 .. N /\ id \in EntryIds(q)
  BY <1>1, <1>3, <1>4
<1>6. IsSequence(q)
  BY <1>5 DEF AreDrawn
<1> HIDE DEF q, A, N
<1>7. DOMAIN q = 1 .. Len(q)
  BY <1>6, OwnMembers DEF IsSequence
<1>8. \E k \in DOMAIN q : q[k].id = id
  BY <1>5 DEF EntryIds, ToSet
<1>9. PlaceIn(q, id) \in DOMAIN q /\ q[PlaceIn(q, id)].id = id
  BY <1>8 DEF PlaceIn
<1>10. PlaceAt(columns, id) = PlaceIn(q, id)
  BY DEF PlaceAt, q, at
<1> QED  BY <1>5, <1>7, <1>9, <1>10 DEF q, at, N

AreApart(layouts, size, geo, shown) ==
    /\ DOMAIN layouts = shown
    /\ \A a, b \in shown : a = b \/ Apart(layouts[a], layouts[b], geo)
    /\ \A id \in shown :
           /\ layouts[id].x >= 0 /\ layouts[id].x + geo.width <= size.width
           /\ layouts[id].y >= 0 /\ layouts[id].y + geo.height <= size.height

LEMMA CardsAreApart ==
    ASSUME NEW columns, NEW shown, AreDrawn(columns, shown), NEW mode
    PROVE  LET geo == DisplayModeGeometry(mode)
           IN  AreApart(LineageNodeLayouts(columns, geo), CanvasSize(columns, geo), geo, shown)
<1> DEFINE geo == DisplayModeGeometry(mode)
           layouts == LineageNodeLayouts(columns, geo)
           size == CanvasSize(columns, geo)
           N == Len(columns)
           T == TallestColumn(columns)
           wide == geo.width + geo.columnGap
           high == geo.height + geo.rowGap
           at(id) == ColumnAt(columns, id)
           place(id) == PlaceAt(columns, id)
           count(id) == Len(columns[at(id)].resources)
           all == 2 * geo.padY + Extent(T, geo.height, geo.rowGap)
           top(c) == (all - Extent(c, geo.height, geo.rowGap)) \div 2
           X(i) == (i - 1) * wide
           Y(k) == (k - 1) * high
<1>1. DOMAIN columns = 1 .. N /\ N \in Nat \ {0}
  BY OwnMembers DEF AreDrawn, IsSequence
<1>2. ShownIds(columns) = shown
  BY <1>1 DEF ShownIds, AreDrawn
<1>3. /\ DOMAIN layouts = shown
      /\ \A id \in shown : /\ layouts[id].x = geo.padX + X(at(id))
                           /\ layouts[id].y = top(count(id)) + Y(place(id))
      /\ size.width = 2 * geo.padX + Extent(N, geo.width, geo.columnGap)
      /\ size.height = all
  <2> HIDE DEF geo
  <2> QED  BY <1>2 DEF LineageNodeLayouts, CanvasSize
<1>4. ASSUME NEW id \in shown
      PROVE  /\ at(id) \in 1 .. N /\ place(id) \in 1 .. count(id)
             /\ columns[at(id)].resources[place(id)].id = id
             /\ count(id) \in Nat /\ count(id) <= T
  BY CardHasPlace, TallestIsLongest
<1>5. T \in Nat \ {0}
  BY TallestIsLongest
<1>6. /\ geo.width \in Nat /\ geo.height \in Nat /\ wide \in Nat /\ high \in Nat
      /\ geo.padX \in Nat
      /\ \A i, j \in Nat : i < j => X(i) + geo.width <= X(j)
      /\ \A i, j \in Nat : i < j => Y(i) + geo.height <= Y(j)
      /\ \A i, n \in Nat \ {0} : i <= n =>
             /\ geo.padX + X(i) >= 0
             /\ geo.padX + X(i) + geo.width <= 2 * geo.padX + Extent(n, geo.width, geo.columnGap)
      /\ \A k, c \in Nat \ {0} : k <= c /\ c <= T =>
             /\ top(c) \in Int /\ top(c) + Y(k) >= 0
             /\ top(c) + Y(k) + geo.height <= all
  <2> HIDE DEF T
  <2> QED  BY <1>5, GeometryHasRoom
<1>7. \A i \in Nat : X(i) \in Int /\ Y(i) \in Int
  BY <1>6
<1> HIDE DEF X, Y, top, all, wide, high, T, layouts, size
<1>8. ASSUME NEW id \in shown
      PROVE  /\ at(id) \in Nat \ {0} /\ at(id) <= N
             /\ place(id) \in Nat \ {0} /\ count(id) \in Nat \ {0} /\ place(id) <= count(id)
             /\ count(id) <= T
  BY <1>1, <1>4
<1> DEFINE left(id) == geo.padX + X(at(id))
           upper(id) == top(count(id)) + Y(place(id))
<1>9. ASSUME NEW id \in shown
      PROVE  /\ left(id) >= 0 /\ left(id) + geo.width <= size.width
             /\ upper(id) >= 0 /\ upper(id) + geo.height <= size.height
             /\ X(at(id)) \in Int /\ Y(place(id)) \in Int /\ top(count(id)) \in Int
             /\ layouts[id].x = left(id) /\ layouts[id].y = upper(id)
  <2> HIDE DEF at, place, count
  <2>1. geo.padX + X(at(id)) >= 0 /\ geo.padX + X(at(id)) + geo.width <= size.width
    BY <1>1, <1>3, <1>6, <1>8
  <2>2. top(count(id)) \in Int /\ top(count(id)) + Y(place(id)) >= 0
        /\ top(count(id)) + Y(place(id)) + geo.height <= size.height
    BY <1>3, <1>6, <1>8
  <2>3. X(at(id)) \in Int /\ Y(place(id)) \in Int
    BY <1>7, <1>8
  <2>4. layouts[id].x = geo.padX + X(at(id)) /\ layouts[id].y = top(count(id)) + Y(place(id))
    BY <1>3
  <2> QED  BY <2>1, <2>2, <2>3, <2>4
<1>10. ASSUME NEW a \in shown, NEW b \in shown, at(a) < at(b)
       PROVE  left(a) + geo.width <= left(b)
  <2>1. X(at(a)) + geo.width <= X(at(b))
    BY <1>6, <1>8, <1>10
  <2> DEFINE xa == X(at(a))
             xb == X(at(b))
  <2>2. xa \in Int /\ xb \in Int /\ xa + geo.width <= xb
    BY <1>9, <2>1
  <2> HIDE DEF xa, xb, geo
  <2>3. geo.padX + xa + geo.width <= geo.padX + xb
    BY <1>6, <2>2
  <2> QED  BY <2>3 DEF xa, xb
<1>11. ASSUME NEW a \in shown, NEW b \in shown, count(a) = count(b), place(a) < place(b)
       PROVE  upper(a) + geo.height <= upper(b)
  <2>1. Y(place(a)) + geo.height <= Y(place(b))
    BY <1>6, <1>8, <1>11
  <2> DEFINE ya == Y(place(a))
             yb == Y(place(b))
             t == top(count(a))
  <2>2. ya \in Int /\ yb \in Int /\ ya + geo.height <= yb /\ t \in Int /\ top(count(b)) = t
    BY <1>9, <1>11, <2>1
  <2> HIDE DEF ya, yb, t, geo
  <2>3. t + ya + geo.height <= t + yb
    BY <1>6, <2>2
  <2> QED  BY <2>2, <2>3 DEF ya, yb, t
<1> HIDE DEF left, upper
<1>12. ASSUME NEW a \in shown, NEW b \in shown, a # b
       PROVE  Apart(layouts[a], layouts[b], geo)
  <2>1. CASE at(a) = at(b)
    <3>1. place(a) # place(b) /\ count(a) = count(b)
      BY <1>4, <1>12, <2>1
    <3>2. place(a) < place(b) \/ place(b) < place(a)
      BY <1>8, <3>1
    <3> HIDE DEF geo, at, place, count
    <3>3. upper(a) + geo.height <= upper(b) \/ upper(b) + geo.height <= upper(a)
      BY <1>11, <3>1, <3>2
    <3> QED  BY <1>9, <3>3 DEF Apart
  <2>2. CASE at(a) # at(b)
    <3>1. at(a) < at(b) \/ at(b) < at(a)
      BY <1>8, <2>2
    <3> HIDE DEF geo, at, place, count
    <3>2. left(a) + geo.width <= left(b) \/ left(b) + geo.width <= left(a)
      BY <1>10, <3>1
    <3> QED  BY <1>9, <3>2 DEF Apart
  <2> QED  BY <2>1, <2>2
<1> HIDE DEF geo
<1>13. AreApart(layouts, size, geo, shown)
  BY <1>3, <1>9, <1>12 DEF AreApart
<1> QED  BY <1>13 DEF layouts, size, geo

\* What is reached along the edges has no part that no edge leaves.
LEMMA ReachedAreConnected ==
    ASSUME NEW ids, IsFiniteSet(ids), NEW edges, edges \subseteq ids \X ids, NEW selected \in ids
    PROVE  LET reached == ReachableFromSelected(edges, selected)
           IN  /\ selected \in reached /\ reached \subseteq ids
               /\ \A part \in SUBSET reached : (selected \in part /\ part # reached) =>
                      \E e \in edges : /\ e[1] \in reached /\ e[2] \in reached
                                       /\ (e[1] \in part) # (e[2] \in part)
<1> DEFINE N == Cardinality(edges)
           reached == ReachableFromSelected(edges, selected)
<1>1. N \in Nat
  BY FS_Product, FS_Subset, FS_CardinalityType
<1>2. PICK h : /\ h[0] = Alone(selected) /\ reached = h[N]
               /\ \A n \in 1 .. N : h[n] = AlongEdges(edges, h[n - 1])
  BY <1>1, ReachableUnfolds
<1> HIDE DEF N, reached
<1>3. ASSUME NEW e \in edges PROVE e[1] \in ids /\ e[2] \in ids
  OBVIOUS
<1> DEFINE within == {n \in 0 .. N : selected \in h[n] /\ h[n] \subseteq ids}
<1>4. 0 .. N \subseteq within
  <2>1. 0 \in within
    BY <1>1, <1>2 DEF Alone
  <2>2. ASSUME NEW n \in 1 .. N, n - 1 \in within PROVE n \in within
    <3>1. h[n] = AlongEdges(edges, h[n - 1]) /\ n \in 0 .. N
      BY <1>1, <1>2
    <3>2. AlongEdges(edges, h[n - 1]) \subseteq ids /\ selected \in AlongEdges(edges, h[n - 1])
      BY <1>3, <2>2 DEF AlongEdges
    <3> QED  BY <3>1, <3>2
  <2> HIDE DEF within
  <2> QED  BY <1>1, <2>1, <2>2, BoundedInduction
<1>5. \A n \in 0 .. N : h[n] \subseteq reached
  <2> DEFINE back == {n \in 0 .. N : h[N - n] \subseteq reached}
  <2>1. 0 \in back
    BY <1>1, <1>2
  <2>2. ASSUME NEW n \in 1 .. N, n - 1 \in back PROVE n \in back
    <3>1. N - n + 1 \in 1 .. N /\ N - (n - 1) = N - n + 1 /\ (N - n + 1) - 1 = N - n /\ n \in 0 .. N
      BY <1>1
    <3> DEFINE m == N - n + 1
    <3>2. h[m] = AlongEdges(edges, h[m - 1]) /\ h[m] \subseteq reached /\ h[m - 1] = h[N - n]
      BY <1>2, <2>2, <3>1
    <3>3. h[m - 1] \subseteq h[m]
      BY <3>2 DEF AlongEdges
    <3> QED  BY <3>1, <3>2, <3>3
  <2> HIDE DEF back
  <2>3. 0 .. N \subseteq back
    BY <1>1, <2>1, <2>2, BoundedInduction
  <2>4. ASSUME NEW n \in 0 .. N PROVE h[n] \subseteq reached
    <3>1. N - n \in 0 .. N /\ N - (N - n) = n
      BY <1>1
    <3> QED  BY <2>3, <3>1 DEF back
  <2> QED  BY <2>4
<1>6. selected \in reached /\ reached \subseteq ids
  BY <1>1, <1>2, <1>4
<1>7. ASSUME NEW part \in SUBSET reached, selected \in part, part # reached
      PROVE  \E e \in edges : /\ e[1] \in reached /\ e[2] \in reached
                              /\ (e[1] \in part) # (e[2] \in part)
  <2> DEFINE beyond == {n \in 0 .. N : ~(h[n] \subseteq part)}
  <2>1. N \in beyond /\ beyond \in SUBSET Nat
    <3>1. ~(reached \subseteq part)
      BY <1>7
    <3> QED  BY <1>1, <1>2, <3>1
  <2>2. PICK n \in beyond : \A m \in beyond : n <= m
    BY <2>1, SmallestNumber
  <2>3. n # 0
    BY <1>2, <1>7 DEF Alone
  <2>4. n \in 1 .. N /\ n - 1 \in 0 .. N
    BY <1>1, <2>2, <2>3
  <2>5. h[n - 1] \subseteq part
    BY <2>2, <2>4
  <2>6. PICK x \in h[n] : x \notin part
    BY <2>2
  <2>7. h[n] = AlongEdges(edges, h[n - 1]) /\ x \in reached
    BY <1>2, <1>5, <2>4, <2>6
  <2>8. x \in AlongEdges(edges, h[n - 1]) /\ x \notin h[n - 1]
    BY <2>5, <2>6, <2>7
  <2>9. \E e \in edges : \/ e[1] = x /\ e[2] \in h[n - 1]
                         \/ e[2] = x /\ e[1] \in h[n - 1]
    BY <2>8 DEF AlongEdges
  <2> QED  BY <2>5, <2>6, <2>7, <2>9
<1> QED  BY <1>6, <1>7 DEF reached

\* What the legend leaves is joined to the selected asset by edges that are drawn.
LEMMA FilteredAreConnected ==
    ASSUME NEW g, NEW p, NEW layouts, NEW size, IsFiniteSet(DOMAIN layouts), p.resource \in DOMAIN layouts
    PROVE  LET model == ModelOf(g, layouts, size)
               ids == FilteredIds(g, p, model)
               edges == EdgesWithin(model.edges, ids)
           IN  /\ p.resource \in ids /\ ids \subseteq DOMAIN layouts
               /\ \A part \in SUBSET ids : (p.resource \in part /\ part # ids) =>
                      \E e \in edges : (e[1] \in part) # (e[2] \in part)
<1> DEFINE shown == DOMAIN layouts
           drawn == DisplayedGraphEdges(g, shown)
           kept == KeptByLegend(g, p, shown)
           joined == EdgesWithin(drawn, kept)
           model == ModelOf(g, layouts, size)
           ids == FilteredIds(g, p, model)
<1>1. model.layouts = layouts /\ model.edges = drawn
  BY DEF ModelOf
<1>2. ids = ReachableFromSelected(joined, p.resource)
  BY <1>1 DEF FilteredIds, Pruned, PruneToSelected
<1>3. kept \subseteq shown /\ p.resource \in kept
  BY DEF KeptByLegend
<1>4. joined \subseteq kept \X kept /\ joined \subseteq drawn
  BY DEF EdgesWithin, DisplayedGraphEdges
<1>5. IsFiniteSet(kept)
  BY <1>3, FS_Subset
<1> HIDE DEF joined, kept, drawn, ids
<1>6. /\ p.resource \in ids /\ ids \subseteq kept
      /\ \A part \in SUBSET ids : (p.resource \in part /\ part # ids) =>
             \E e \in joined : /\ e[1] \in ids /\ e[2] \in ids
                               /\ (e[1] \in part) # (e[2] \in part)
  BY <1>2, <1>3, <1>4, <1>5, ReachedAreConnected
<1>7. \A e \in joined : e[1] \in ids /\ e[2] \in ids => e \in EdgesWithin(drawn, ids)
  BY <1>4 DEF EdgesWithin
<1> HIDE DEF model, shown
<1>8. \A part \in SUBSET ids : (p.resource \in part /\ part # ids) =>
          \E e \in EdgesWithin(model.edges, ids) : (e[1] \in part) # (e[2] \in part)
  BY <1>1, <1>6, <1>7
<1> QED  BY <1>3, <1>6, <1>8 DEF ids, model, shown

\* The columns show the neighbourhood.
Neighbourhood(g, p) ==
    {p.resource} \cup {id \in WithinSteps(g.up, p.resource, PanelDepth(p, "upstream"))
                                 \cup WithinSteps(g.down, p.resource, PanelDepth(p, "downstream")) :
                              ~IsTestNode(g, id)}
IsSelection(g, p) ==
    IsLineageGraph(g) /\ p.resource \in DOMAIN g.nodes /\ p.upstream \in Nat /\ p.downstream \in Nat

LEMMA NeighbourhoodIsDrawn ==
    ASSUME NEW g, NEW p, IsSelection(g, p)
    PROVE  /\ AreDrawn(BuildDisplayColumns(g, p), Neighbourhood(g, p))
           /\ p.resource \in Neighbourhood(g, p) /\ Neighbourhood(g, p) \subseteq DOMAIN g.nodes
<1> DEFINE V == DOMAIN g.nodes
           root == p.resource
           above == PanelDepth(p, "upstream")
           below == PanelDepth(p, "downstream")
           up == UpstreamOf(g, p)
           down == DownstreamOf(g, p)
           upRank == Ranks(g, up, g.down)
           downRank == Ranks(g, down, g.up)
           upWithin == WithinSteps(g.up, root, above)
           downWithin == WithinSteps(g.down, root, below)
<1>1. g.up \in [V -> Seq(V)] /\ g.down \in [V -> Seq(V)] /\ root \in V
  BY DEF IsSelection, IsLineageGraph
<1>2. above \in Nat /\ below \in Nat
  BY DEF IsSelection, PanelDepth, AllDepsDepth
<1>3. up = CollectDependencyIdsByDepth(g.up, root, above)
      /\ down = CollectDependencyIdsByDepth(g.down, root, below)
  BY DEF UpstreamOf, DownstreamOf
<1>4. Neighbourhood(g, p) = {root} \cup {id \in upWithin \cup downWithin : ~IsTestNode(g, id)}
  BY DEF Neighbourhood
<1>5. BuildDisplayColumns(g, p) = ColumnsOf(g, root, up, down, upRank, downRank)
  BY DEF BuildDisplayColumns
<1> HIDE DEF V, root, above, below, up, down, upWithin, downWithin
<1>6. IsSequence(up) /\ DistinctIds(up) /\ EntryIds(up) = upWithin \ {root} /\ upWithin \subseteq V
  <2> DEFINE found == CollectDependencyIdsByDepth(g.up, root, above)
  <2>1. /\ IsSequence(found) /\ DistinctIds(found)
        /\ EntryIds(found) = upWithin \ {root} /\ upWithin \subseteq V
    BY ONLY <1>1, <1>2, CollectedAreWithin DEF upWithin
  <2>2. up = found
    BY <1>3
  <2> QED  BY <2>1, <2>2
<1>7. IsSequence(down) /\ DistinctIds(down) /\ EntryIds(down) = downWithin \ {root}
      /\ downWithin \subseteq V
  <2> DEFINE found == CollectDependencyIdsByDepth(g.down, root, below)
  <2>1. /\ IsSequence(found) /\ DistinctIds(found)
        /\ EntryIds(found) = downWithin \ {root} /\ downWithin \subseteq V
    BY ONLY <1>1, <1>2, CollectedAreWithin DEF downWithin
  <2>2. down = found
    BY <1>3
  <2> QED  BY <2>1, <2>2
<1>8. /\ DOMAIN upRank = {id \in EntryIds(up) : ~IsTestNode(g, id)}
      /\ \A id \in DOMAIN upRank : upRank[id] \in 1 .. Len(up)
  <2>1. EntryIds(up) \subseteq V
    BY <1>6
  <2> QED  BY <1>1, <1>6, <2>1, RankedAreShown
<1>9. /\ DOMAIN downRank = {id \in EntryIds(down) : ~IsTestNode(g, id)}
      /\ \A id \in DOMAIN downRank : downRank[id] \in 1 .. Len(down)
  <2>1. EntryIds(down) \subseteq V
    BY <1>7
  <2> QED  BY <1>1, <1>7, <2>1, RankedAreShown
<1> HIDE DEF upRank, downRank
<1>10. DOMAIN upRank \subseteq EntryIds(up) /\ DOMAIN downRank \subseteq EntryIds(down)
  BY <1>8, <1>9
<1>11. AreDrawn(ColumnsOf(g, root, up, down, upRank, downRank),
                {root} \cup DOMAIN upRank \cup DOMAIN downRank)
  BY <1>6, <1>7, <1>8, <1>9, <1>10, ColumnsAreDrawn
<1>12. {root} \cup DOMAIN upRank \cup DOMAIN downRank = Neighbourhood(g, p)
  BY <1>4, <1>6, <1>7, <1>8, <1>9
<1>13. root \in Neighbourhood(g, p) /\ Neighbourhood(g, p) \subseteq V
  BY <1>1, <1>4, <1>6, <1>7
<1> QED  BY <1>5, <1>11, <1>12, <1>13 DEF root, V

LEMMA NeighbourhoodIsShown ==
    ASSUME NEW g, NEW p, IsSelection(g, p)
    PROVE  LET model == BuildLineageGraphModel(g, p)
               ids == FilteredIds(g, p, model)
           IN  IsNeighbourhood(g, p, model, ids) /\ ids \subseteq DOMAIN g.nodes
<1> DEFINE shown == Neighbourhood(g, p)
           columns == ReorderGraphColumns(g, BuildDisplayColumns(g, p))
           geo == DisplayModeGeometry(p.mode)
           layouts == LineageNodeLayouts(columns, geo)
           size == CanvasSize(columns, geo)
           model == ModelOf(g, layouts, size)
           ids == FilteredIds(g, p, model)
<1>1. model = BuildLineageGraphModel(g, p)
  BY DEF BuildLineageGraphModel, ModelOfColumns
<1>2. AreDrawn(columns, shown)
  BY NeighbourhoodIsDrawn, ReorderedAreDrawn
<1>3. p.resource \in shown /\ shown \subseteq DOMAIN g.nodes
  BY NeighbourhoodIsDrawn
<1> HIDE DEF columns, shown
<1>4. AreApart(layouts, size, geo, shown)
  BY <1>2, CardsAreApart
<1>5. model.layouts = layouts /\ model.size = size
  BY DEF ModelOf
<1> HIDE DEF layouts, size
<1>6. DOMAIN layouts = shown /\ IsFiniteSet(shown)
  <2>1. IsFiniteSet(DOMAIN g.nodes)
    BY DEF IsSelection, IsLineageGraph
  <2> QED  BY <1>3, <1>4, <2>1, FS_Subset DEF AreApart
<1>7. /\ p.resource \in ids /\ ids \subseteq DOMAIN layouts
      /\ \A part \in SUBSET ids : (p.resource \in part /\ part # ids) =>
             \E e \in EdgesWithin(model.edges, ids) : (e[1] \in part) # (e[2] \in part)
  BY <1>3, <1>6, FilteredAreConnected
<1> HIDE DEF model, ids, geo
<1>8. IsNeighbourhood(g, p, model, ids)
  BY <1>4, <1>5, <1>6, <1>7 DEF IsNeighbourhood, AreApart, Neighbourhood, shown, geo
<1> QED  BY <1>1, <1>3, <1>6, <1>7, <1>8 DEF ids

\* The panel shows an asset of the graph, at depths that are numbers.
PanelFields == {"resource", "upstream", "downstream", "allDeps", "lens", "keys", "mode"}
LineageInv == panel = [f \in PanelFields |-> panel[f]] /\ IsSelection(lineageGraph, panel)

LEMMA LineageStarts ==
    ASSUME NEW g, IsLineageGraph(g), NEW id \in DOMAIN g.nodes, LineageStart(g, id)
    PROVE  LineageInv
BY DEF LineageStart, LineageInv, PanelFields, IsSelection

LEMMA InitLineage == Init => LineageInv
<1> SUFFICES ASSUME Init PROVE LineageInv
  OBVIOUS
<1>1. CASE scene = "lineage"
  <2>1. PICK g \in LineageGraphs : \E id \in DOMAIN g.nodes : LineageStart(g, id)
    BY <1>1 DEF Init, StartLineage
  <2>2. IsLineageGraph(g)
    BY LineageIsOfResources
  <2> QED  BY <2>1, <2>2, LineageStarts
<1>2. CASE scene # "lineage"
  <2> DEFINE none == <<>>
             node == [type |-> "model", name |-> 1, tone |-> "neutral", described |-> FALSE]
             g == [nodes |-> <<node>>, up |-> <<none>>, down |-> <<none>>]
  <2>1. LineageStart(g, 1)
    BY <1>2 DEF Init, IdleLineage
  <2>2. DOMAIN <<node>> = {1}
    OBVIOUS
  <2>3. IsFiniteSet({1})
    BY FS_Singleton
  <2>4. <<none>> \in [{1} -> Seq({1})]
    <3>1. none \in Seq({1})
      OBVIOUS
    <3> HIDE DEF none
    <3> QED  BY <3>1
  <2> HIDE DEF node, none
  <2>5. IsLineageGraph(g) /\ 1 \in DOMAIN g.nodes
    BY <2>2, <2>3, <2>4 DEF IsLineageGraph
  <2> HIDE DEF g
  <2> QED  BY <2>1, <2>5, LineageStarts
<1> QED  BY <1>1, <1>2

LEMMA PanelStep ==
    ASSUME LineageInv, LineageNext
    PROVE  LineageInv'
<1>1. panel = [f \in PanelFields |-> panel[f]] /\ IsSelection(lineageGraph, panel)
  BY DEF LineageInv
<1>2. \A p : /\ SetPanel(p) /\ p = [f \in PanelFields |-> p[f]]
             /\ p.resource \in DOMAIN lineageGraph.nodes
             /\ p.upstream \in Nat /\ p.downstream \in Nat
             => LineageInv'
  BY <1>1 DEF SetPanel, LineageInv, IsSelection
<1>3. /\ IsLineageGraph(lineageGraph) /\ panel.resource \in DOMAIN lineageGraph.nodes
      /\ panel.upstream \in Nat /\ panel.downstream \in Nat
  BY <1>1 DEF IsSelection
<1>4. ASSUME NEW keys, SetPanel([panel EXCEPT !.keys = keys]) PROVE LineageInv'
  BY <1>1, <1>2, <1>3, <1>4 DEF PanelFields
<1>5. CASE ToggleLegendKey
  BY <1>1, <1>2, <1>3, <1>5 DEF ToggleLegendKey, PanelFields
<1>6. CASE ClearFilters
  BY <1>4, <1>6 DEF ClearFilters
<1>7. CASE SetLensMode
  BY <1>1, <1>2, <1>3, <1>7 DEF SetLensMode, PanelFields
<1>8. CASE SetDepth
  BY <1>1, <1>2, <1>3, <1>8, LineageIsOfResources DEF SetDepth, PanelFields
<1>9. CASE StepDepth
  <2>1. PICK side \in {"upstream", "downstream"}, by \in {-1, 1} :
            panel[side] + by \in DepthButtons /\ SetPanel([panel EXCEPT ![side] = @ + by])
    BY <1>9 DEF StepDepth
  <2>2. panel[side] + by \in Nat
    BY <2>1, LineageIsOfResources
  <2> QED  BY <1>1, <1>2, <1>3, <2>1, <2>2 DEF PanelFields
<1>10. CASE SelectCard
  <2>1. PICK id \in FilteredIds(lineageGraph, panel, BuildLineageGraphModel(lineageGraph, panel)) :
            SetPanel([panel EXCEPT !.resource = id])
    BY <1>10 DEF SelectCard
  <2>2. id \in DOMAIN lineageGraph.nodes
    BY <1>1, <2>1, NeighbourhoodIsShown
  <2> QED  BY <1>1, <1>2, <1>3, <2>1, <2>2 DEF PanelFields
<1>11. CASE SetFullscreen
  BY <1>1, <1>2, <1>3, <1>11 DEF SetFullscreen, PanelFields
<1> QED
  BY <1>5, <1>6, <1>7, <1>8, <1>9, <1>10, <1>11 DEF LineageNext

LEMMA LineageStep ==
    ASSUME LineageInv, [Next]_investigationVars
    PROVE  LineageInv'
<1>1. LineageNext \/ UNCHANGED lineageVars
  BY DEF Next, investigationVars
<1>2. CASE UNCHANGED lineageVars
  BY <1>2 DEF LineageInv, lineageVars
<1> QED  BY <1>1, <1>2, PanelStep

LEMMA NeighbourhoodIsSeen ==
    ASSUME LineageInv
    PROVE  LineageIsConnected
BY NeighbourhoodIsShown DEF LineageInv, LineageIsConnected, ShowsNeighbourhood

(* Of whatever graph, whatever asset is selected and whatever the depths, the lens and the legend: *)
(* the cards are the assets within the depths, none on another or outside the canvas, and those    *)
(* the legend leaves are joined to the selected one (lineage-model.ts:54, 339, 675).               *)
THEOREM LineageIsConnectedAlways == Spec => []LineageIsConnected
<1>1. LineageInv /\ [Next]_investigationVars => LineageInv'
  BY LineageStep
<1> QED  BY <1>1, InitLineage, NeighbourhoodIsSeen, PTL DEF Spec
=============================================================================
