------------------------ MODULE AgentWorkflowsProofs ------------------------
(***************************************************************************)
(* What holds of saved workflows for any graphs, tools, limits, numbers of *)
(* pages and of saves under way.                                           *)
(*                                                                         *)
(* The first part is about graphs: the validation's searches are recursive *)
(* functions, and every fact about one is an induction on how deep its     *)
(* calls are nested or on how far a loop has come.  The second is about    *)
(* what a page draws, the third about the steps of pages, saves and        *)
(* requests, the last about what a run of a stored graph meets.            *)
(***************************************************************************)
EXTENDS AgentWorkflows, SequenceTheorems, FunctionTheorems, FiniteSetTheorems,
        WellFoundedInduction, NaturalsInduction, TLAPS

-----------------------------------------------------------------------------
(* Induction and recursion.  What the library states with an operator for a *)
(* parameter is said here of sets and functions, which the provers can put  *)
(* in a parameter's place.                                                  *)

Less == {p \in Nat \X Nat : p[1] < p[2]}

LEMMA LeastElement ==
    ASSUME NEW T, T \subseteq Nat, T # {}
    PROVE  \E n \in T : \A m \in T : n <= m
<1>1. IsWellFoundedOn(Less, Nat)
  BY NatLessThanWellFounded DEF OpToRel, Less
<1>2. PICK n \in T : \A m \in T : ~(<<m, n>> \in Less)
  BY <1>1, WFMin
<1>3. ASSUME NEW m \in T PROVE n <= m
  <2>1. m \in Nat /\ n \in Nat
    OBVIOUS
  <2>2. <<m, n>> \in Nat \X Nat /\ <<m, n>>[1] = m /\ <<m, n>>[2] = n
    BY <2>1
  <2>3. ~(m < n)
    BY <1>2, <2>2 DEF Less
  <2>. QED
    BY <2>1, <2>3
<1>. QED
  BY <1>3

LEMMA InductUpTo ==
    ASSUME NEW n \in Nat, NEW T, 0 \in T, \A k \in 1 .. n : k - 1 \in T => k \in T
    PROVE  \A k \in 0 .. n : k \in T
<1>1. SUFFICES ASSUME (0 .. n) \ T # {} PROVE FALSE
  OBVIOUS
<1>. DEFINE U == (0 .. n) \ T
<1>2. PICK k \in U : \A m \in U : k <= m
  <2>1. U \subseteq Nat /\ U # {}
    BY <1>1
  <2>. HIDE DEF U
  <2>. QED
    BY <2>1, LeastElement
<1>3. k \in 1 .. n /\ k - 1 \in 0 .. n /\ ~(k <= k - 1)
  BY <1>2
<1>. QED
  BY <1>2, <1>3

(* f is what a recursion over 0 .. n defines: v, and then what step makes   *)
(* of the value before.                                                     *)
IsRecursion(f, V, n, v, step) ==
    /\ f \in [0 .. n -> V] /\ f[0] = v
    /\ \A k \in 1 .. n : f[k] = step[<<f[k - 1], k>>]

LEMMA RecursionExists ==
    ASSUME NEW V, NEW v \in V, NEW n \in Nat, NEW step \in [V \X (1 .. n) -> V]
    PROVE  \E f : IsRecursion(f, V, n, v, step)
<1>. DEFINE T == {m \in 0 .. n : \E f : IsRecursion(f, V, m, v, step)}
<1>1. 0 \in T
  <2>. DEFINE f == [i \in 0 .. 0 |-> v]
  <2>1. IsRecursion(f, V, 0, v, step)
    BY DEF IsRecursion
  <2>. QED
    BY <2>1
<1>2. ASSUME NEW k \in 1 .. n, k - 1 \in T PROVE k \in T
  <2>1. PICK f : IsRecursion(f, V, k - 1, v, step)
    BY <1>2
  <2>2. /\ f \in [0 .. k - 1 -> V] /\ f[0] = v
        /\ \A i \in 1 .. k - 1 : f[i] = step[<<f[i - 1], i>>]
    BY <2>1 DEF IsRecursion
  <2>. DEFINE next == step[<<f[k - 1], k>>]
              g == [i \in 0 .. k |-> IF i = k THEN next ELSE f[i]]
  <2>3. next \in V
    BY <2>2
  <2>. HIDE DEF next
  <2>4. g \in [0 .. k -> V] /\ g[0] = v /\ g[k] = next
    BY <2>2, <2>3
  <2>5. \A i \in 0 .. k - 1 : g[i] = f[i]
    BY <2>2
  <2>. HIDE DEF g
  <2>6. ASSUME NEW i \in 1 .. k PROVE g[i] = step[<<g[i - 1], i>>]
    <3>1. i - 1 \in 0 .. k - 1 /\ g[i - 1] = f[i - 1]
      BY <2>5
    <3>2. CASE i = k
      BY <2>4, <3>1, <3>2 DEF next
    <3>3. CASE i # k
      <4>1. i \in 0 .. k - 1 /\ i \in 1 .. k - 1
        BY <3>3
      <4>. QED
        BY <2>2, <2>5, <3>1, <4>1
    <3>. QED
      BY <3>2, <3>3
  <2>7. IsRecursion(g, V, k, v, step)
    BY <2>4, <2>6 DEF IsRecursion
  <2>. QED
    BY <2>7
<1>. HIDE DEF T
<1>3. n \in T
  BY <1>1, <1>2, InductUpTo
<1>. QED
  BY <1>3 DEF T

-----------------------------------------------------------------------------
(* Sequences. *)

IsSeq(s) == s \in Seq(ToSet(s))

DistinctIds(s) == \A i, j \in DOMAIN s : s[i].id = s[j].id => i = j

LEMMA OnlyKeeps ==
    ASSUME NEW s, IsSeq(s), NEW S
    PROVE  /\ IsSeq(Only(s, S)) /\ ToSet(Only(s, S)) = ToSet(s) \cap S
           /\ DistinctIds(s) => DistinctIds(Only(s, S))
<1>. DEFINE n == Len(s)
            kept[k \in 0 .. n] ==
               IF k = 0 THEN <<>>
               ELSE IF s[k] \in S THEN Append(kept[k - 1], s[k]) ELSE kept[k - 1]
<1>1. Only(s, S) = kept[n]
  BY DEF Only
<1>2. n \in Nat /\ DOMAIN s = 1 .. n
  BY DEF IsSeq
<1>. DEFINE step == [p \in Seq(S) \X (1 .. n) |->
                       IF s[p[2]] \in S THEN Append(p[1], s[p[2]]) ELSE p[1]]
<1>3. \A v \in Seq(S), k \in 1 .. n :
         step[<<v, k>>] = IF s[k] \in S THEN Append(v, s[k]) ELSE v
  OBVIOUS
<1>4. step \in [Seq(S) \X (1 .. n) -> Seq(S)]
  OBVIOUS
<1>5. <<>> \in Seq(S)
  OBVIOUS
<1>. HIDE DEF step
<1>6. PICK f : IsRecursion(f, Seq(S), n, <<>>, step)
  BY <1>2, <1>4, <1>5, RecursionExists
<1>7. f = [k \in 0 .. n |->
             IF k = 0 THEN <<>>
             ELSE IF s[k] \in S THEN Append(f[k - 1], s[k]) ELSE f[k - 1]]
  <2>1. /\ f \in [0 .. n -> Seq(S)] /\ f[0] = <<>>
        /\ \A k \in 1 .. n : f[k] = step[<<f[k - 1], k>>]
    BY <1>6 DEF IsRecursion
  <2>2. ASSUME NEW k \in 1 .. n
        PROVE  f[k] = IF s[k] \in S THEN Append(f[k - 1], s[k]) ELSE f[k - 1]
    <3>1. k - 1 \in 0 .. n /\ f[k - 1] \in Seq(S)
      BY <1>2, <2>1
    <3>. QED
      BY <1>3, <2>1, <3>1
  <2>3. \A k \in 0 .. n : k = 0 \/ k \in 1 .. n
    BY <1>2
  <2>. HIDE DEF n
  <2>. QED
    BY <2>1, <2>2, <2>3
<1>8. kept = [k \in 0 .. n |->
                IF k = 0 THEN <<>>
                ELSE IF s[k] \in S THEN Append(kept[k - 1], s[k]) ELSE kept[k - 1]]
  BY <1>7
<1>. HIDE DEF kept
<1>9. kept[0] = <<>>
  BY <1>2, <1>8
<1>10. ASSUME NEW k \in 1 .. n
       PROVE  kept[k] = IF s[k] \in S THEN Append(kept[k - 1], s[k]) ELSE kept[k - 1]
  <2>1. k \in 0 .. n /\ k # 0
    BY <1>2
  <2>. HIDE DEF n
  <2>. QED
    BY <1>8, <2>1
(* Of the first k members: what is kept, and from where.                    *)
<1>. DEFINE Good(k) ==
        /\ kept[k] \in Seq(S)
        /\ \A x : x \in ToSet(kept[k]) <=> \E i \in 1 .. k : x = s[i] /\ x \in S
        /\ DistinctIds(s) => DistinctIds(kept[k])
            T == {k \in 0 .. n : Good(k)}
<1>11. 0 \in T
  <2>1. DOMAIN kept[0] = {} /\ kept[0] \in Seq(S)
    BY <1>9
  <2>2. ToSet(kept[0]) = {} /\ DistinctIds(kept[0])
    BY <2>1 DEF ToSet, DistinctIds
  <2>3. 1 .. 0 = {}
    OBVIOUS
  <2>. QED
    BY <1>2, <2>1, <2>2, <2>3
<1>12. ASSUME NEW k \in 1 .. n, k - 1 \in T PROVE k \in T
  <2>. DEFINE r == kept[k - 1]
  <2>1. /\ r \in Seq(S)
        /\ \A x : x \in ToSet(r) <=> \E i \in 1 .. k - 1 : x = s[i] /\ x \in S
        /\ DistinctIds(s) => DistinctIds(r)
    BY <1>12
  <2>2. \A i : i \in 1 .. k <=> i \in 1 .. k - 1 \/ i = k
    BY <1>2
  <2>3. k \in 0 .. n
    BY <1>2
  <2>4. CASE s[k] \notin S
    <3>1. kept[k] = r
      BY <1>10, <2>4
    <3>. HIDE DEF r
    <3>2. \A x : x \in ToSet(r) <=> \E i \in 1 .. k : x = s[i] /\ x \in S
      BY <2>1, <2>2, <2>4
    <3>. QED
      BY <2>1, <2>3, <3>1, <3>2
  <2>5. CASE s[k] \in S
    <3>1. kept[k] = Append(r, s[k])
      BY <1>10, <2>5
    <3>. HIDE DEF r
    <3>2. /\ Append(r, s[k]) \in Seq(S) /\ DOMAIN r = 1 .. Len(r) /\ Len(r) \in Nat
          /\ DOMAIN Append(r, s[k]) = 1 .. Len(r) + 1
          /\ \A i \in 1 .. Len(r) : Append(r, s[k])[i] = r[i]
          /\ Append(r, s[k])[Len(r) + 1] = s[k]
      BY <2>1, <2>5
    <3>. DEFINE q == Append(r, s[k])
    <3>. HIDE DEF q
    <3>3. \A i : i \in DOMAIN q <=> i \in DOMAIN r \/ i = Len(r) + 1
      BY <3>2 DEF q
    <3>4. /\ \A i \in DOMAIN r : q[i] = r[i]
          /\ q[Len(r) + 1] = s[k] /\ Len(r) + 1 \notin DOMAIN r
      BY <3>2 DEF q
    <3>5. \A x : x \in ToSet(q) <=> x \in ToSet(r) \/ x = s[k]
      BY <3>3, <3>4 DEF ToSet
    <3>6. \A x : x \in ToSet(q) <=> \E i \in 1 .. k : x = s[i] /\ x \in S
      BY <2>1, <2>2, <2>5, <3>5
    <3>7. ASSUME DistinctIds(s) PROVE DistinctIds(q)
      <4>1. ASSUME NEW i \in DOMAIN r PROVE r[i].id # s[k].id
        <5>1. PICK j \in 1 .. k - 1 : r[i] = s[j]
          BY <2>1 DEF ToSet
        <5>2. j \in DOMAIN s /\ k \in DOMAIN s /\ j # k
          BY <1>2
        <5>. QED
          BY <3>7, <5>1, <5>2 DEF DistinctIds
      <4>. QED
        BY <2>1, <3>3, <3>4, <3>7, <4>1 DEF DistinctIds
    <3>8. q \in Seq(S)
      BY <3>2 DEF q
    <3>. QED
      BY <2>3, <3>1, <3>6, <3>7, <3>8 DEF q
  <2>. QED
    BY <2>4, <2>5
<1>13. Good(n)
  <2>. HIDE DEF T, Good
  <2>1. \A k \in 0 .. n : k \in T
    BY <1>2, <1>11, <1>12, InductUpTo
  <2>2. n \in T
    BY <1>2, <2>1
  <2>. QED
    BY <2>2 DEF T
<1>14. ToSet(kept[n]) = ToSet(s) \cap S
  BY <1>2, <1>13 DEF ToSet
<1>15. IsSeq(kept[n])
  BY <1>13 DEF IsSeq, ToSet
<1>. QED
  BY <1>1, <1>13, <1>14, <1>15

-----------------------------------------------------------------------------
(* Graphs. *)

(* adjacency has every node's targets in a list.                            *)
IsAdjacency(adjacency, N, E) ==
    /\ E \subseteq N \X N
    /\ adjacency \in [N -> Seq(N)]
    /\ \A m, n \in N : n \in ToSet(adjacency[m]) <=> <<m, n>> \in E

Closed(C, E) == \A m, n : <<m, n>> \in E /\ m \in C => n \in C

(* What can be reached is closed, and nothing closed is smaller: as long as *)
(* a round finds something new there are more nodes than rounds.            *)
LEMMA Reached ==
    ASSUME NEW N, IsFiniteSet(N), NEW E, NEW adjacency, IsAdjacency(adjacency, N, E),
           NEW n \in N
    PROVE  /\ reachableFrom(n, adjacency) \subseteq N /\ n \in reachableFrom(n, adjacency)
           /\ Closed(reachableFrom(n, adjacency), E)
           /\ \A C : n \in C /\ Closed(C, E) => reachableFrom(n, adjacency) \subseteq C
<1>. DEFINE Grow(R) == R \cup UNION {ToSet(adjacency[x]) : x \in R}
            rounds == Cardinality(DOMAIN adjacency)
            reached[k \in 0 .. rounds] == IF k = 0 THEN {n} ELSE Grow(reached[k - 1])
<1>1. reachableFrom(n, adjacency) = reached[rounds]
  BY DEF reachableFrom
<1>2. rounds = Cardinality(N) /\ rounds \in Nat
  <2>1. DOMAIN adjacency = N
    BY DEF IsAdjacency
  <2>. QED
    BY <2>1, FS_CardinalityType
<1>3. ASSUME NEW R \in SUBSET N
      PROVE  /\ Grow(R) \subseteq N /\ R \subseteq Grow(R)
             /\ \A m \in R : \A t : <<m, t>> \in E => t \in Grow(R)
             /\ \A C : Closed(C, E) /\ R \subseteq C => Grow(R) \subseteq C
  <2>1. ASSUME NEW x \in R PROVE \A t : t \in ToSet(adjacency[x]) <=> <<x, t>> \in E
    <3>1. x \in N /\ adjacency[x] \in Seq(N)
      BY DEF IsAdjacency
    <3>2. ToSet(adjacency[x]) \subseteq N
      BY <3>1 DEF ToSet
    <3>. QED
      BY <3>1, <3>2 DEF IsAdjacency
  <2>2. \A t : t \in Grow(R) <=> t \in R \/ \E x \in R : <<x, t>> \in E
    BY <2>1
  <2>. HIDE DEF Grow
  <2>3. \A m, t : <<m, t>> \in E => t \in N
    BY DEF IsAdjacency
  <2>4. Grow(R) \subseteq N /\ R \subseteq Grow(R)
    BY <2>2, <2>3
  <2>5. \A m \in R : \A t : <<m, t>> \in E => t \in Grow(R)
    BY <2>2
  <2>6. \A C : Closed(C, E) /\ R \subseteq C => Grow(R) \subseteq C
    BY <2>2 DEF Closed
  <2>. QED
    BY <2>4, <2>5, <2>6
<1>. DEFINE step == [p \in (SUBSET N) \X (1 .. rounds) |-> Grow(p[1])]
<1>4. step \in [(SUBSET N) \X (1 .. rounds) -> SUBSET N]
  <2>. HIDE DEF Grow
  <2>. QED
    BY <1>3
<1>5. \A R \in SUBSET N, k \in 1 .. rounds : step[<<R, k>>] = Grow(R)
  OBVIOUS
<1>. HIDE DEF step, Grow, rounds
<1>6. PICK f : IsRecursion(f, SUBSET N, rounds, {n}, step)
  <2>1. {n} \in SUBSET N
    OBVIOUS
  <2>. QED
    BY <1>2, <1>4, <2>1, RecursionExists
<1>7. f = [k \in 0 .. rounds |-> IF k = 0 THEN {n} ELSE Grow(f[k - 1])]
  <2>1. /\ f \in [0 .. rounds -> SUBSET N] /\ f[0] = {n}
        /\ \A k \in 1 .. rounds : f[k] = step[<<f[k - 1], k>>]
    BY <1>6 DEF IsRecursion
  <2>2. ASSUME NEW k \in 1 .. rounds PROVE f[k] = Grow(f[k - 1])
    <3>1. k - 1 \in 0 .. rounds
      BY <1>2
    <3>. QED
      BY <1>5, <2>1, <3>1
  <2>3. \A k \in 0 .. rounds : k = 0 \/ k \in 1 .. rounds
    BY <1>2
  <2>. QED
    BY <2>1, <2>2, <2>3
<1>8. reached = [k \in 0 .. rounds |-> IF k = 0 THEN {n} ELSE Grow(reached[k - 1])]
  BY <1>7
<1>. HIDE DEF reached
<1>9. reached[0] = {n}
  BY <1>2, <1>8
<1>10. ASSUME NEW k \in 1 .. rounds PROVE reached[k] = Grow(reached[k - 1])
  <2>1. k \in 0 .. rounds /\ k # 0
    BY <1>2
  <2>. QED
    BY <1>8, <2>1
<1>. DEFINE Good(k) ==
        /\ reached[k] \in SUBSET N /\ n \in reached[k]
        /\ \A C : n \in C /\ Closed(C, E) => reached[k] \subseteq C
        /\ Cardinality(reached[k]) >= k + 1 \/ Grow(reached[k]) = reached[k]
            T == {k \in 0 .. rounds : Good(k)}
<1>11. 0 \in T
  <2>1. Cardinality(reached[0]) = 1
    BY <1>9, FS_Singleton
  <2>. QED
    BY <1>2, <1>9, <2>1
<1>12. ASSUME NEW k \in 1 .. rounds, k - 1 \in T PROVE k \in T
  <2>. DEFINE R == reached[k - 1]
  <2>1. /\ R \in SUBSET N /\ n \in R
        /\ \A C : n \in C /\ Closed(C, E) => R \subseteq C
        /\ Cardinality(R) >= (k - 1) + 1 \/ Grow(R) = R
    BY <1>12
  <2>2. reached[k] = Grow(R) /\ k \in 0 .. rounds /\ k \in Nat
    BY <1>2, <1>10
  <2>. HIDE DEF R
  <2>3. /\ reached[k] \in SUBSET N /\ n \in reached[k]
        /\ \A C : n \in C /\ Closed(C, E) => reached[k] \subseteq C
    BY <1>3, <2>1, <2>2
  <2>4. CASE Grow(R) = R
    <3>1. Grow(reached[k]) = reached[k]
      BY <2>2, <2>4
    <3>. QED
      BY <2>2, <2>3, <3>1
  <2>5. CASE Grow(R) # R /\ Cardinality(R) >= (k - 1) + 1
    <3>1. R \subseteq reached[k] /\ R # reached[k]
      BY <1>3, <2>1, <2>2, <2>5
    <3>2. IsFiniteSet(reached[k])
      BY <2>3, FS_Subset
    <3>3. IsFiniteSet(R) /\ Cardinality(R) <= Cardinality(reached[k])
          /\ (Cardinality(R) = Cardinality(reached[k]) => R = reached[k])
      BY <3>1, <3>2, FS_Subset
    <3>4. Cardinality(R) \in Nat /\ Cardinality(reached[k]) \in Nat
      BY <3>2, <3>3, FS_CardinalityType
    <3>5. Cardinality(reached[k]) >= k + 1
      BY <2>2, <2>5, <3>1, <3>3, <3>4
    <3>. QED
      BY <2>2, <2>3, <3>5
  <2>. QED
    BY <2>1, <2>4, <2>5
<1>13. Good(rounds)
  <2>. HIDE DEF Good, T
  <2>1. \A k \in 0 .. rounds : k \in T
    BY <1>2, <1>11, <1>12, InductUpTo
  <2>2. rounds \in T
    BY <1>2, <2>1
  <2>. QED
    BY <2>2 DEF T
<1>14. Grow(reached[rounds]) = reached[rounds]
  <2>1. Cardinality(reached[rounds]) \in Nat /\ Cardinality(reached[rounds]) <= Cardinality(N)
    <3>1. IsFiniteSet(reached[rounds]) /\ Cardinality(reached[rounds]) <= Cardinality(N)
      BY <1>13, FS_Subset
    <3>. QED
      BY <3>1, FS_CardinalityType
  <2>. QED
    BY <1>2, <1>13, <2>1
<1>15. Closed(reached[rounds], E)
  BY <1>3, <1>13, <1>14 DEF Closed
<1>. QED
  BY <1>1, <1>13, <1>15

-----------------------------------------------------------------------------
(* The depth-first search. *)

(* What a target's call has left, with n flagged if the target is.          *)
Flagged(n, target, u) ==
    IF target \in u.cyclic THEN [u EXCEPT !.cyclic = @ \cup {n}] ELSE u

LEMMA FlaggedFacts ==
    ASSUME NEW N, NEW n \in N, NEW target, NEW u \in SearchState(N)
    PROVE  /\ Flagged(n, target, u) \in SearchState(N)
           /\ Flagged(n, target, u).visiting = u.visiting
           /\ Flagged(n, target, u).visited = u.visited
           /\ Flagged(n, target, u).cyclic =
                 IF target \in u.cyclic THEN u.cyclic \cup {n} ELSE u.cyclic
BY DEF Flagged, SearchState

IsLoop(after, n, targets, s, visit, N) ==
    /\ after \in [0 .. Len(targets) -> SearchState(N)] /\ after[0] = s
    /\ \A k \in 1 .. Len(targets) :
          after[k] = Flagged(n, targets[k], visit[<<targets[k], after[k - 1]>>])
    /\ follow(n, targets, s, visit) = after[Len(targets)]

LEMMA LoopExists ==
    ASSUME NEW N, NEW n \in N, NEW targets \in Seq(N), NEW s \in SearchState(N),
           NEW visit \in [N \X SearchState(N) -> SearchState(N)]
    PROVE  \E after : IsLoop(after, n, targets, s, visit, N)
<1>. DEFINE m == Len(targets)
            S == SearchState(N)
            after[k \in 0 .. m] ==
               IF k = 0 THEN s
               ELSE LET u == visit[<<targets[k], after[k - 1]>>]
                    IN IF targets[k] \in u.cyclic
                       THEN [u EXCEPT !.cyclic = @ \cup {n}] ELSE u
            step == [p \in S \X (1 .. m) |->
                       Flagged(n, targets[p[2]], visit[<<targets[p[2]], p[1]>>])]
<1>1. follow(n, targets, s, visit) = after[m]
  BY DEF follow
<1>2. m \in Nat /\ \A k \in 1 .. m : targets[k] \in N
  OBVIOUS
<1>3. \A u \in S, k \in 1 .. m :
         step[<<u, k>>] = Flagged(n, targets[k], visit[<<targets[k], u>>])
  OBVIOUS
<1>4. step \in [S \X (1 .. m) -> S]
  <2>1. ASSUME NEW u \in S, NEW k \in 1 .. m
        PROVE  Flagged(n, targets[k], visit[<<targets[k], u>>]) \in S
    <3>1. visit[<<targets[k], u>>] \in S
      BY <1>2
    <3>. QED
      BY <3>1, FlaggedFacts
  <2>. HIDE DEF S, m
  <2>. QED
    BY <2>1
<1>. HIDE DEF step, S, m
<1>5. PICK f : IsRecursion(f, S, m, s, step)
  BY <1>2, <1>4, RecursionExists DEF S
<1>6. /\ f \in [0 .. m -> S] /\ f[0] = s
      /\ \A k \in 1 .. m : f[k] = step[<<f[k - 1], k>>]
  BY <1>5 DEF IsRecursion
<1>7. \A k \in 0 .. m : k = 0 \/ k \in 1 .. m
  BY <1>2
<1>8. ASSUME NEW k \in 1 .. m
      PROVE  f[k] = Flagged(n, targets[k], visit[<<targets[k], f[k - 1]>>])
  <2>1. k - 1 \in 0 .. m
    BY <1>2
  <2>. QED
    BY <1>3, <1>6, <2>1
<1>9. f = [k \in 0 .. m |->
             IF k = 0 THEN s ELSE Flagged(n, targets[k], visit[<<targets[k], f[k - 1]>>])]
  BY <1>6, <1>7, <1>8
<1>10. after = [k \in 0 .. m |->
             IF k = 0 THEN s ELSE Flagged(n, targets[k], visit[<<targets[k], after[k - 1]>>])]
  BY <1>9 DEF Flagged
<1>. HIDE DEF after
<1>11. after[0] = s
  BY <1>2, <1>10
<1>12. ASSUME NEW k \in 1 .. m
       PROVE  after[k] = Flagged(n, targets[k], visit[<<targets[k], after[k - 1]>>])
  <2>1. k \in 0 .. m /\ k # 0
    BY <1>2
  <2>. QED
    BY <1>10, <2>1
<1>. DEFINE T == {k \in 0 .. m : after[k] \in S}
<1>13. 0 \in T
  BY <1>2, <1>11 DEF S
<1>14. ASSUME NEW k \in 1 .. m, k - 1 \in T PROVE k \in T
  <2>1. visit[<<targets[k], after[k - 1]>>] \in S /\ k \in 0 .. m
    BY <1>2, <1>14 DEF S
  <2>2. Flagged(n, targets[k], visit[<<targets[k], after[k - 1]>>]) \in S
    BY <2>1, FlaggedFacts DEF S
  <2>3. after[k] \in S
    BY <1>12, <2>2
  <2>. QED
    BY <2>1, <2>3
<1>15. \A k \in 0 .. m : after[k] \in S
  <2>. HIDE DEF T
  <2>1. \A k \in 0 .. m : k \in T
    BY <1>2, <1>13, <1>14, InductUpTo
  <2>. QED
    BY <2>1 DEF T
<1>16. after \in [0 .. m -> S]
  BY <1>10, <1>15
<1>17. IsLoop(after, n, targets, s, visit, N)
  BY <1>1, <1>11, <1>12, <1>16 DEF IsLoop, S, m
<1>. QED
  BY <1>17

(* visit() returns such a state for any node and state.                     *)
LEMMA VisitNodeType ==
    ASSUME NEW N, NEW n \in N, NEW targets \in Seq(N), NEW s \in SearchState(N),
           NEW calls \in [N \X SearchState(N) -> SearchState(N)]
    PROVE  visitNode(n, targets, s, calls) \in SearchState(N)
<1>. DEFINE u == [s EXCEPT !.visiting = @ \cup {n}]
            done == follow(n, targets, u, calls)
<1>1. u \in SearchState(N)
  BY DEF SearchState
<1>2. PICK after : IsLoop(after, n, targets, u, calls, N)
  BY <1>1, LoopExists
<1>3. done \in SearchState(N)
  BY <1>2 DEF IsLoop
<1>. HIDE DEF done
<1>4. [done EXCEPT !.visiting = @ \ {n}, !.visited = @ \cup {n}] \in SearchState(N)
  BY <1>3 DEF SearchState
<1>5. [s EXCEPT !.cyclic = @ \cup {n}] \in SearchState(N)
  BY DEF SearchState
<1>. QED
  BY <1>4, <1>5 DEF visitNode, done

(* C keeps an edge for each of its nodes. *)
IsCycle(C, E) == C # {} /\ \A m \in C : \E n \in C : <<m, n>> \in E

Acyclic(E) == \A C : ~IsCycle(C, E)

(* Whoever is being visited leads on to another, or to n, whose turn it is. *)
IsTrail(n, visiting, E) == \A v \in visiting : \E w \in visiting \cup {n} : <<v, w>> \in E

(* A search flags nobody where there is no cycle.                           *)
StaysClean(s, r) == r.cyclic = {} /\ r.visiting = s.visiting

FlagsNobody(visit, N, E) ==
    \A n \in N, s \in SearchState(N) :
       s.cyclic = {} /\ IsTrail(n, s.visiting, E)
         => StaysClean(s, visit[<<n, s>>])

LEMMA NobodyFlagged ==
    ASSUME NEW N, NEW E, NEW adjacency, IsAdjacency(adjacency, N, E), Acyclic(E),
           NEW calls \in [N \X SearchState(N) -> SearchState(N)], FlagsNobody(calls, N, E),
           NEW n \in N, NEW s \in SearchState(N),
           s.cyclic = {}, IsTrail(n, s.visiting, E)
    PROVE  StaysClean(s, visitNode(n, adjacency[n], s, calls))
<1>1. n \notin s.visiting
  <2>1. SUFFICES ASSUME n \in s.visiting PROVE IsCycle(s.visiting, E)
    BY DEF Acyclic
  <2>. QED
    BY <2>1 DEF IsCycle, IsTrail
<1>2. CASE n \in s.visited
  BY <1>1, <1>2 DEF visitNode, StaysClean
<1>3. CASE n \notin s.visited
  <2>. DEFINE u == [s EXCEPT !.visiting = @ \cup {n}]
              targets == adjacency[n]
              done == follow(n, targets, u, calls)
  <2>1. /\ u \in SearchState(N) /\ u.visiting = s.visiting \cup {n} /\ u.cyclic = {}
    BY DEF SearchState
  <2>2. /\ targets \in Seq(N) /\ Len(targets) \in Nat
        /\ \A k \in 1 .. Len(targets) : targets[k] \in N /\ <<n, targets[k]>> \in E
    <3>1. targets \in Seq(N)
      BY DEF IsAdjacency
    <3>2. ASSUME NEW k \in 1 .. Len(targets) PROVE targets[k] \in N /\ targets[k] \in ToSet(targets)
      BY <3>1 DEF ToSet
    <3>3. ASSUME NEW k \in 1 .. Len(targets) PROVE <<n, targets[k]>> \in E
      BY <3>2 DEF IsAdjacency
    <3>. QED
      BY <3>1, <3>2, <3>3
  <2>. HIDE DEF u, targets
  <2>3. PICK after : IsLoop(after, n, targets, u, calls, N)
    BY <2>1, <2>2, LoopExists
  <2>. DEFINE T == {k \in 0 .. Len(targets) :
                     after[k].cyclic = {} /\ after[k].visiting = u.visiting}
  <2>4. 0 \in T
    BY <2>1, <2>2, <2>3 DEF IsLoop
  <2>5. ASSUME NEW k \in 1 .. Len(targets), k - 1 \in T PROVE k \in T
    <3>. DEFINE before == after[k - 1]
                call == calls[<<targets[k], before>>]
    <3>1. /\ before \in SearchState(N) /\ before.cyclic = {} /\ before.visiting = u.visiting
          /\ k \in 0 .. Len(targets) /\ k - 1 \in 0 .. Len(targets)
      <4>1. k \in 0 .. Len(targets) /\ k - 1 \in 0 .. Len(targets)
        BY <2>2
      <4>2. before \in SearchState(N)
        BY <2>3, <4>1 DEF IsLoop
      <4>. QED
        BY <2>5, <4>1, <4>2
    <3>2. after[k] = Flagged(n, targets[k], call)
      BY <2>3 DEF IsLoop
    <3>. HIDE DEF before
    <3>3. IsTrail(targets[k], before.visiting, E)
      <4>1. before.visiting = s.visiting \cup {n} /\ <<n, targets[k]>> \in E
        BY <2>1, <2>2, <3>1
      <4>. QED
        BY <4>1 DEF IsTrail
    <3>4. call.cyclic = {} /\ call.visiting = u.visiting /\ call \in SearchState(N)
      <4>1. targets[k] \in N
        BY <2>2
      <4>2. call \in SearchState(N)
        BY <3>1, <4>1
      <4>3. call.cyclic = {} /\ call.visiting = before.visiting
        BY <3>1, <3>3, <4>1 DEF FlagsNobody, StaysClean
      <4>. QED
        BY <3>1, <4>2, <4>3
    <3>. HIDE DEF call
    <3>5. after[k].cyclic = {} /\ after[k].visiting = u.visiting
      <4>1. /\ Flagged(n, targets[k], call).visiting = call.visiting
            /\ Flagged(n, targets[k], call).cyclic =
                 IF targets[k] \in call.cyclic THEN call.cyclic \cup {n} ELSE call.cyclic
        BY <3>4 DEF Flagged, SearchState
      <4>. QED
        BY <3>2, <3>4, <4>1
    <3>. QED
      BY <3>1, <3>5
  <2>6. done.cyclic = {} /\ done.visiting = u.visiting /\ done \in SearchState(N)
    <3>. HIDE DEF T
    <3>1. \A k \in 0 .. Len(targets) : k \in T
      BY <2>2, <2>4, <2>5, InductUpTo
    <3>2. Len(targets) \in 0 .. Len(targets)
      BY <2>2
    <3>3. Len(targets) \in T
      BY <3>1, <3>2
    <3>. QED
      BY <2>3, <3>2, <3>3 DEF T, IsLoop
  <2>7. visitNode(n, targets, s, calls)
          = [done EXCEPT !.visiting = @ \ {n}, !.visited = @ \cup {n}]
    BY <1>1, <1>3 DEF visitNode, u
  <2>. HIDE DEF done
  <2>8. /\ [done EXCEPT !.visiting = @ \ {n}, !.visited = @ \cup {n}].cyclic = done.cyclic
        /\ [done EXCEPT !.visiting = @ \ {n}, !.visited = @ \cup {n}].visiting
             = done.visiting \ {n}
    BY <2>6 DEF SearchState
  <2>9. done.visiting \ {n} = s.visiting
    BY <1>1, <2>1, <2>6
  <2>. QED
    BY <2>6, <2>7, <2>8, <2>9 DEF targets, StaysClean
<1>. QED
  BY <1>2, <1>3

(* The cycles that s has not seen: none that a visited node is on.          *)
NoneMissed(s, E) ==
    s.cyclic = {} => \A C : IsCycle(C, E) => C \cap s.visited = {}

(* What a call does to a state; with nobody flagged n is visited.           *)
Visits(n, s, r, E) ==
    /\ r.visiting = s.visiting /\ s.visited \subseteq r.visited /\ s.cyclic \subseteq r.cyclic
    /\ NoneMissed(r, E)
    /\ r.cyclic = {} => n \in r.visited

(* A search of which the calls may be nested depth deep.                    *)
MissesNone(visit, depth, N, E) ==
    \A n \in N, s \in SearchState(N) :
       Cardinality(N \ s.visiting) < depth /\ NoneMissed(s, E)
         => Visits(n, s, visit[<<n, s>>], E)

LEMMA NoneIsMissed ==
    ASSUME NEW N, IsFiniteSet(N), NEW E, NEW adjacency, IsAdjacency(adjacency, N, E),
           NEW calls \in [N \X SearchState(N) -> SearchState(N)],
           NEW depth \in Nat, MissesNone(calls, depth, N, E),
           NEW n \in N, NEW s \in SearchState(N),
           Cardinality(N \ s.visiting) < depth + 1, NoneMissed(s, E)
    PROVE  Visits(n, s, visitNode(n, adjacency[n], s, calls), E)
<1>1. CASE n \in s.visiting
  <2>. DEFINE r == [s EXCEPT !.cyclic = @ \cup {n}]
  <2>1. visitNode(n, adjacency[n], s, calls) = r
    BY <1>1 DEF visitNode
  <2>2. /\ r.visiting = s.visiting /\ r.visited = s.visited /\ r.cyclic = s.cyclic \cup {n}
    BY DEF SearchState
  <2>. HIDE DEF r
  <2>. QED
    BY <2>1, <2>2 DEF Visits, NoneMissed
<1>2. CASE n \notin s.visiting /\ n \in s.visited
  BY <1>2 DEF visitNode, Visits
<1>3. CASE n \notin s.visiting /\ n \notin s.visited
  <2>. DEFINE u == [s EXCEPT !.visiting = @ \cup {n}]
              targets == adjacency[n]
              done == follow(n, targets, u, calls)
  <2>1. /\ u \in SearchState(N) /\ u.visiting = s.visiting \cup {n}
        /\ u.visited = s.visited /\ u.cyclic = s.cyclic
    BY DEF SearchState
  <2>2. /\ targets \in Seq(N) /\ Len(targets) \in Nat
        /\ \A k \in 1 .. Len(targets) : targets[k] \in N
        /\ \A t \in N : <<n, t>> \in E => \E k \in 1 .. Len(targets) : targets[k] = t
    <3>1. targets \in Seq(N)
      BY DEF IsAdjacency
    <3>2. \A t : t \in ToSet(targets) => \E k \in 1 .. Len(targets) : targets[k] = t
      BY <3>1 DEF ToSet
    <3>3. \A t \in N : <<n, t>> \in E => t \in ToSet(targets)
      BY DEF IsAdjacency
    <3>. QED
      BY <3>1, <3>2, <3>3
  <2>3. Cardinality(N \ u.visiting) < depth
    <3>1. N \ u.visiting = (N \ s.visiting) \ {n} /\ n \in N \ s.visiting
      BY <1>3, <2>1
    <3>2. IsFiniteSet(N \ s.visiting)
      BY FS_Subset
    <3>3. Cardinality(N \ u.visiting) = Cardinality(N \ s.visiting) - 1
          /\ Cardinality(N \ s.visiting) \in Nat
      BY <3>1, <3>2, FS_RemoveElement, FS_CardinalityType
    <3>. QED
      BY <3>3
  <2>. HIDE DEF u, targets
  <2>4. PICK after : IsLoop(after, n, targets, u, calls, N)
    BY <2>1, <2>2, LoopExists
  <2>. DEFINE Good(k) ==
          /\ after[k].visiting = u.visiting
          /\ u.visited \subseteq after[k].visited /\ u.cyclic \subseteq after[k].cyclic
          /\ NoneMissed(after[k], E)
          /\ after[k].cyclic = {} => \A i \in 1 .. k : targets[i] \in after[k].visited
              T == {k \in 0 .. Len(targets) : Good(k)}
  <2>5. 0 \in T
    <3>1. after[0] = u /\ 0 \in 0 .. Len(targets) /\ 1 .. 0 = {}
      BY <2>2, <2>4 DEF IsLoop
    <3>2. NoneMissed(u, E)
      BY <2>1 DEF NoneMissed
    <3>. QED
      BY <3>1, <3>2
  <2>6. ASSUME NEW k \in 1 .. Len(targets), k - 1 \in T PROVE k \in T
    <3>. DEFINE before == after[k - 1]
                call == calls[<<targets[k], before>>]
    <3>1. /\ before \in SearchState(N) /\ Good(k - 1)
          /\ k \in 0 .. Len(targets) /\ k - 1 \in 0 .. Len(targets)
      BY <2>2, <2>4, <2>6 DEF IsLoop
    <3>2. after[k] = Flagged(n, targets[k], call)
      BY <2>4 DEF IsLoop
    <3>3. before.visiting = u.visiting /\ NoneMissed(before, E)
          /\ u.visited \subseteq before.visited /\ u.cyclic \subseteq before.cyclic
          /\ (before.cyclic = {} => \A i \in 1 .. k - 1 : targets[i] \in before.visited)
      BY <3>1
    <3>. HIDE DEF before
    <3>4. Visits(targets[k], before, call, E) /\ call \in SearchState(N)
      <4>1. Cardinality(N \ before.visiting) < depth
        BY <2>3, <3>3
      <4>. QED
        BY <2>2, <3>1, <3>3, <4>1 DEF MissesNone
    <3>. HIDE DEF call
    <3>5. /\ after[k].visiting = call.visiting /\ after[k].visited = call.visited
          /\ after[k].cyclic = IF targets[k] \in call.cyclic
                               THEN call.cyclic \cup {n} ELSE call.cyclic
      <4>1. /\ Flagged(n, targets[k], call).visiting = call.visiting
            /\ Flagged(n, targets[k], call).visited = call.visited
            /\ Flagged(n, targets[k], call).cyclic =
                 IF targets[k] \in call.cyclic THEN call.cyclic \cup {n} ELSE call.cyclic
        BY <3>4 DEF Flagged, SearchState
      <4>. QED
        BY <3>2, <4>1
    <3>6. /\ call.cyclic \subseteq after[k].cyclic
          /\ (after[k].cyclic = {} => call.cyclic = {})
      BY <3>5
    <3>7. NoneMissed(after[k], E)
      BY <3>4, <3>5, <3>6 DEF Visits, NoneMissed
    <3>8. ASSUME after[k].cyclic = {}, NEW i \in 1 .. k PROVE targets[i] \in after[k].visited
      <4>1. call.cyclic = {} /\ before.cyclic = {}
        BY <3>4, <3>6, <3>8 DEF Visits
      <4>2. targets[k] \in call.visited /\ before.visited \subseteq call.visited
        BY <3>4, <4>1 DEF Visits
      <4>3. i = k \/ i \in 1 .. k - 1
        BY <2>2
      <4>. QED
        BY <3>3, <3>5, <4>1, <4>2, <4>3
    <3>9. /\ after[k].visiting = u.visiting
          /\ u.visited \subseteq after[k].visited /\ u.cyclic \subseteq after[k].cyclic
      BY <3>3, <3>4, <3>5, <3>6 DEF Visits
    <3>. QED
      BY <3>1, <3>7, <3>8, <3>9
  <2>7. Good(Len(targets)) /\ after[Len(targets)] = done /\ done \in SearchState(N)
    <3>. HIDE DEF T, Good, done
    <3>1. \A k \in 0 .. Len(targets) : k \in T
      BY <2>2, <2>5, <2>6, InductUpTo
    <3>2. Len(targets) \in 0 .. Len(targets)
      BY <2>2
    <3>3. Len(targets) \in T
      BY <3>1, <3>2
    <3>4. Good(Len(targets))
      BY <3>3 DEF T
    <3>. QED
      BY <2>4, <3>2, <3>4 DEF IsLoop, done
  <2>8. /\ done.visiting = u.visiting /\ NoneMissed(done, E)
        /\ u.visited \subseteq done.visited /\ u.cyclic \subseteq done.cyclic
        /\ (done.cyclic = {} => \A t \in N : <<n, t>> \in E => t \in done.visited)
    BY <2>2, <2>7
  <2>. DEFINE r == [done EXCEPT !.visiting = @ \ {n}, !.visited = @ \cup {n}]
  <2>9. visitNode(n, targets, s, calls) = r
    BY <1>3 DEF visitNode, u
  <2>. HIDE DEF done
  <2>10. /\ r.visiting = done.visiting \ {n} /\ r.visited = done.visited \cup {n}
         /\ r.cyclic = done.cyclic
    BY <2>7 DEF SearchState
  <2>. HIDE DEF r
  <2>11. NoneMissed(r, E)
    <3>. SUFFICES ASSUME r.cyclic = {}, NEW C, IsCycle(C, E)
                  PROVE  C \cap r.visited = {}
      BY DEF NoneMissed
    <3>1. C \cap done.visited = {}
      BY <2>8, <2>10 DEF NoneMissed
    <3>2. n \notin C
      <4>. SUFFICES ASSUME n \in C PROVE FALSE
        OBVIOUS
      <4>1. PICK t \in C : <<n, t>> \in E
        BY DEF IsCycle
      <4>2. t \in N
        BY <4>1 DEF IsAdjacency
      <4>. QED
        BY <2>8, <2>10, <3>1, <4>1, <4>2
    <3>. QED
      BY <2>10, <3>1, <3>2
  <2>12. r.visiting = s.visiting /\ s.visited \subseteq r.visited /\ s.cyclic \subseteq r.cyclic
    BY <1>3, <2>1, <2>8, <2>10
  <2>. QED
    BY <2>9, <2>10, <2>11, <2>12 DEF Visits, targets
<1>. QED
  BY <1>1, <1>2, <1>3

-----------------------------------------------------------------------------
(* The search of a graph. *)

LEMMA SequenceFinite ==
    ASSUME NEW s, IsSeq(s)
    PROVE  /\ Len(s) \in Nat /\ DOMAIN s = 1 .. Len(s)
           /\ IsFiniteSet({x.id : x \in ToSet(s)})
           /\ Cardinality({x.id : x \in ToSet(s)}) \in Nat
           /\ Cardinality({x.id : x \in ToSet(s)}) = Len(s) <=> DistinctIds(s)
<1>. DEFINE ids == {x.id : x \in ToSet(s)}
            f == [i \in 1 .. Len(s) |-> s[i].id]
<1>1. Len(s) \in Nat /\ DOMAIN s = 1 .. Len(s)
  BY DEF IsSeq
<1>2. f \in Surjection(1 .. Len(s), ids)
  <2>1. f \in [1 .. Len(s) -> ids]
    BY <1>1 DEF ToSet
  <2>2. \A x \in ids : \E i \in 1 .. Len(s) : f[i] = x
    BY <1>1 DEF ToSet
  <2>. QED
    BY <2>1, <2>2 DEF Surjection
<1>3. IsFiniteSet(1 .. Len(s)) /\ Cardinality(1 .. Len(s)) = Len(s)
  <2>1. 1 \in Int /\ Len(s) \in Int /\ Len(s) - 1 + 1 = Len(s) /\ (1 > Len(s) => Len(s) = 0)
    BY <1>1
  <2>. QED
    BY <2>1, FS_Interval
<1>4. f \in Injection(1 .. Len(s), ids) <=> DistinctIds(s)
  <2>1. f \in [1 .. Len(s) -> ids] /\ \A i \in 1 .. Len(s) : f[i] = s[i].id
    BY <1>1 DEF ToSet
  <2>. HIDE DEF f, ids
  <2>. QED
    BY <1>1, <2>1 DEF DistinctIds, Injection, IsInjective
<1>. HIDE DEF f, ids
<1>5. IsFiniteSet(ids) /\ (Cardinality(ids) = Len(s) <=> f \in Injection(1 .. Len(s), ids))
  BY <1>2, <1>3, FS_Surjection
<1>. QED
  BY <1>1, <1>4, <1>5, FS_CardinalityType DEF ids

LEMMA AdjacencyOfGraph ==
    ASSUME NEW d, IsGraph(d), Edges(d) \subseteq nodeIds(d) \X nodeIds(d)
    PROVE  IsAdjacency(buildAdjacency(d), nodeIds(d), Edges(d))
<1>. DEFINE N == nodeIds(d)
            outgoing(n) == Only(d.edges, {e \in ToSet(d.edges) : e.source = n})
            targets(n) == [i \in DOMAIN outgoing(n) |-> outgoing(n)[i].target]
<1>1. IsSeq(d.edges)
  BY DEF IsGraph, IsSeq
<1>2. ASSUME NEW n \in N
      PROVE  /\ targets(n) \in Seq(N)
             /\ \A t : t \in ToSet(targets(n)) <=> <<n, t>> \in Edges(d)
  <2>. DEFINE out == outgoing(n)
              mine == {e \in ToSet(d.edges) : e.source = n}
  <2>1. IsSeq(out) /\ ToSet(out) = ToSet(d.edges) \cap mine
    BY <1>1, OnlyKeeps
  <2>2. \A e : e \in ToSet(out) <=> e \in ToSet(d.edges) /\ e.source = n
    BY <2>1
  <2>. HIDE DEF out
  <2>3. DOMAIN out = 1 .. Len(out) /\ Len(out) \in Nat
    BY <2>1 DEF IsSeq
  <2>4. \A i \in DOMAIN out : out[i] \in ToSet(d.edges) /\ out[i].source = n
    BY <2>2 DEF ToSet
  <2>5. \A i \in DOMAIN out : <<n, out[i].target>> \in Edges(d)
    BY <2>4 DEF Edges
  <2>6. \A i \in DOMAIN out : out[i].target \in N
    BY <2>5
  <2>. DEFINE g == [i \in DOMAIN out |-> out[i].target]
  <2>7. g \in Seq(N)
    BY <2>3, <2>6
  <2>8. \A t : t \in ToSet(g) <=> \E i \in DOMAIN out : t = out[i].target
    BY DEF ToSet
  <2>9. ASSUME NEW t, <<n, t>> \in Edges(d) PROVE \E i \in DOMAIN out : t = out[i].target
    <3>1. PICK e \in ToSet(d.edges) : e.source = n /\ e.target = t
      BY <2>9 DEF Edges
    <3>. QED
      BY <2>2, <3>1 DEF ToSet
  <2>. QED
    BY <2>5, <2>7, <2>8, <2>9 DEF out
<1>3. buildAdjacency(d) = [n \in N |-> targets(n)]
  BY DEF buildAdjacency
<1>. HIDE DEF N, targets
<1>. QED
  BY <1>2, <1>3 DEF IsAdjacency, N

(* The recursions of the search are there. *)
IsSearch(visit, searched, d, depth, adjacency, N) ==
    /\ visit \in [0 .. depth -> [N \X SearchState(N) -> SearchState(N)]]
    /\ \A k \in 1 .. depth : \A n \in N, s \in SearchState(N) :
          visit[k][<<n, s>>] = visitNode(n, adjacency[n], s, visit[k - 1])
    /\ \A n \in N, s \in SearchState(N) : visit[0][<<n, s>>] = s
    /\ searched \in [0 .. Len(d.nodes) -> SearchState(N)]
    /\ searched[0] = [visiting |-> {}, visited |-> {}, cyclic |-> {}]
    /\ \A k \in 1 .. Len(d.nodes) :
          searched[k] = visit[depth][<<d.nodes[k].id, searched[k - 1]>>]
    /\ cyclicNodeIds(d) = searched[Len(d.nodes)].cyclic

LEMMA SearchExists ==
    ASSUME NEW d, IsGraph(d), Edges(d) \subseteq nodeIds(d) \X nodeIds(d)
    PROVE  \E visit, searched :
              IsSearch(visit, searched, d, Cardinality(nodeIds(d)) + 1, buildAdjacency(d),
                       nodeIds(d))
<1>. DEFINE ids == nodeIds(d)
            S == SearchState(ids)
            adjacency == buildAdjacency(d)
            depth == Cardinality(ids) + 1
            visit[k \in 0 .. depth] ==
               [x \in ids \X SearchState(ids) |->
                   IF k = 0 THEN x[2]
                   ELSE visitNode(x[1], adjacency[x[1]], x[2], visit[k - 1])]
            nothing == [visiting |-> {}, visited |-> {}, cyclic |-> {}]
            searched[k \in 0 .. Len(d.nodes)] ==
               IF k = 0 THEN nothing ELSE visit[depth][<<d.nodes[k].id, searched[k - 1]>>]
<1>1. cyclicNodeIds(d) = searched[Len(d.nodes)].cyclic
  BY DEF cyclicNodeIds
<1>2. /\ depth \in Nat /\ depth \in 0 .. depth /\ Len(d.nodes) \in Nat
      /\ \A k \in 1 .. Len(d.nodes) : d.nodes[k].id \in ids
  <2>1. IsSeq(d.nodes) /\ Len(d.nodes) \in Nat /\ DOMAIN d.nodes = 1 .. Len(d.nodes)
    BY DEF IsGraph, IsSeq
  <2>2. Cardinality(ids) \in Nat
    BY <2>1, SequenceFinite DEF nodeIds
  <2>3. \A k \in 1 .. Len(d.nodes) : d.nodes[k].id \in ids
    BY <2>1 DEF nodeIds, ToSet
  <2>. QED
    BY <2>1, <2>2, <2>3
<1>3. IsAdjacency(adjacency, ids, Edges(d))
  BY AdjacencyOfGraph
<1>. HIDE DEF ids, adjacency, depth
<1>. DEFINE Calls == [ids \X S -> S]
            Deeper(c) == [x \in ids \X S |-> visitNode(x[1], adjacency[x[1]], x[2], c)]
            idle == [x \in ids \X S |-> x[2]]
            step == [p \in Calls \X (1 .. depth) |-> Deeper(p[1])]
<1>4. ASSUME NEW c \in Calls PROVE Deeper(c) \in Calls
  <2>1. ASSUME NEW n \in ids, NEW s \in S PROVE visitNode(n, adjacency[n], s, c) \in S
    <3>1. adjacency[n] \in Seq(ids)
      BY <1>3 DEF IsAdjacency
    <3>. QED
      BY <3>1, VisitNodeType
  <2>. HIDE DEF S
  <2>. QED
    BY <2>1
<1>5. idle \in Calls
  OBVIOUS
<1>. HIDE DEF Deeper, idle, S, Calls
<1>6. step \in [Calls \X (1 .. depth) -> Calls]
  BY <1>4
<1>7. \A c \in Calls, k \in 1 .. depth : step[<<c, k>>] = Deeper(c)
  OBVIOUS
<1>. HIDE DEF step
<1>8. PICK f : IsRecursion(f, Calls, depth, idle, step)
  BY <1>2, <1>5, <1>6, RecursionExists
<1>9. f = [k \in 0 .. depth |-> IF k = 0 THEN idle ELSE Deeper(f[k - 1])]
  <2>1. /\ f \in [0 .. depth -> Calls] /\ f[0] = idle
        /\ \A k \in 1 .. depth : f[k] = step[<<f[k - 1], k>>]
    BY <1>8 DEF IsRecursion
  <2>2. ASSUME NEW k \in 1 .. depth PROVE f[k] = Deeper(f[k - 1])
    <3>1. k - 1 \in 0 .. depth
      BY <1>2
    <3>. QED
      BY <1>7, <2>1, <3>1
  <2>3. \A k \in 0 .. depth : k = 0 \/ k \in 1 .. depth
    BY <1>2
  <2>. QED
    BY <2>1, <2>2, <2>3
<1>10. visit = [k \in 0 .. depth |-> IF k = 0 THEN idle ELSE Deeper(visit[k - 1])]
  <2>1. \A v, k : (IF k = 0 THEN idle ELSE Deeper(v[k - 1]))
                    = [x \in ids \X SearchState(ids) |->
                         IF k = 0 THEN x[2]
                         ELSE visitNode(x[1], adjacency[x[1]], x[2], v[k - 1])]
    BY DEF idle, Deeper, S
  <2>2. ASSUME NEW v
        PROVE  [k \in 0 .. depth |-> IF k = 0 THEN idle ELSE Deeper(v[k - 1])]
               = [k \in 0 .. depth |->
                    [x \in ids \X SearchState(ids) |->
                       IF k = 0 THEN x[2]
                       ELSE visitNode(x[1], adjacency[x[1]], x[2], v[k - 1])]]
    <3>. DEFINE a(k) == IF k = 0 THEN idle ELSE Deeper(v[k - 1])
                b(k) == [x \in ids \X SearchState(ids) |->
                           IF k = 0 THEN x[2]
                           ELSE visitNode(x[1], adjacency[x[1]], x[2], v[k - 1])]
    <3>1. \A k : a(k) = b(k)
      BY <2>1
    <3>. HIDE DEF a, b
    <3>2. [k \in 0 .. depth |-> a(k)] = [k \in 0 .. depth |-> b(k)]
      BY <3>1
    <3>. QED
      BY <3>2 DEF a, b
  <2>3. f = [k \in 0 .. depth |->
               [x \in ids \X SearchState(ids) |->
                  IF k = 0 THEN x[2]
                  ELSE visitNode(x[1], adjacency[x[1]], x[2], f[k - 1])]]
    BY <1>9, <2>2
  <2>4. visit = [k \in 0 .. depth |->
               [x \in ids \X SearchState(ids) |->
                  IF k = 0 THEN x[2]
                  ELSE visitNode(x[1], adjacency[x[1]], x[2], visit[k - 1])]]
    BY <2>3
  <2>. HIDE DEF visit
  <2>. QED
    BY <2>2, <2>4
<1>. HIDE DEF visit, searched
<1>11. visit[0] = idle
  BY <1>2, <1>10
<1>12. ASSUME NEW k \in 1 .. depth PROVE visit[k] = Deeper(visit[k - 1])
  <2>1. k \in 0 .. depth /\ k # 0
    BY <1>2
  <2>. QED
    BY <1>10, <2>1
<1>. DEFINE T == {k \in 0 .. depth : visit[k] \in Calls}
<1>13. visit \in [0 .. depth -> Calls]
  <2>1. 0 \in T
    BY <1>2, <1>5, <1>11
  <2>2. ASSUME NEW k \in 1 .. depth, k - 1 \in T PROVE k \in T
    <3>1. k \in 0 .. depth
      BY <1>2
    <3>. QED
      BY <1>4, <1>12, <2>2, <3>1
  <2>. HIDE DEF T
  <2>3. \A k \in 0 .. depth : k \in T
    BY <1>2, <2>1, <2>2, InductUpTo
  <2>4. \A k \in 0 .. depth : visit[k] \in Calls
    BY <2>3 DEF T
  <2>. QED
    BY <1>10, <2>4
<1>14. \A n \in ids, s \in S : visit[0][<<n, s>>] = s
  BY <1>11 DEF idle
<1>15. \A k \in 1 .. depth : \A n \in ids, s \in S :
          visit[k][<<n, s>>] = visitNode(n, adjacency[n], s, visit[k - 1])
  BY <1>12 DEF Deeper
<1>. DEFINE next == [p \in S \X (1 .. Len(d.nodes)) |-> visit[depth][<<d.nodes[p[2]].id, p[1]>>]]
<1>16. next \in [S \X (1 .. Len(d.nodes)) -> S]
  <2>1. visit[depth] \in [ids \X S -> S]
    BY <1>2, <1>13 DEF Calls
  <2>. QED
    BY <1>2, <2>1
<1>17. \A s \in S, k \in 1 .. Len(d.nodes) :
          next[<<s, k>>] = visit[depth][<<d.nodes[k].id, s>>]
  OBVIOUS
<1>18. nothing \in S
  BY DEF S, SearchState
<1>. HIDE DEF next, nothing
<1>19. PICK g : IsRecursion(g, S, Len(d.nodes), nothing, next)
  BY <1>2, <1>16, <1>18, RecursionExists
<1>20. /\ g \in [0 .. Len(d.nodes) -> S] /\ g[0] = nothing
       /\ \A k \in 1 .. Len(d.nodes) : g[k] = next[<<g[k - 1], k>>]
  BY <1>19 DEF IsRecursion
<1>21. \A k \in 0 .. Len(d.nodes) : k = 0 \/ k \in 1 .. Len(d.nodes)
  BY <1>2
<1>22. g = [k \in 0 .. Len(d.nodes) |->
              IF k = 0 THEN nothing ELSE visit[depth][<<d.nodes[k].id, g[k - 1]>>]]
  <2>1. ASSUME NEW k \in 1 .. Len(d.nodes)
        PROVE  g[k] = visit[depth][<<d.nodes[k].id, g[k - 1]>>]
    <3>1. k - 1 \in 0 .. Len(d.nodes)
      BY <1>2
    <3>. QED
      BY <1>17, <1>20, <3>1
  <2>. QED
    BY <1>20, <1>21, <2>1
<1>23. searched = [k \in 0 .. Len(d.nodes) |->
              IF k = 0 THEN nothing ELSE visit[depth][<<d.nodes[k].id, searched[k - 1]>>]]
  BY <1>22 DEF searched
<1>24. searched[0] = nothing
  BY <1>2, <1>23
<1>25. ASSUME NEW k \in 1 .. Len(d.nodes)
       PROVE  searched[k] = visit[depth][<<d.nodes[k].id, searched[k - 1]>>]
  <2>1. k \in 0 .. Len(d.nodes) /\ k # 0
    BY <1>2
  <2>. QED
    BY <1>23, <2>1
<1>. DEFINE U == {k \in 0 .. Len(d.nodes) : searched[k] \in S}
<1>26. searched \in [0 .. Len(d.nodes) -> S]
  <2>1. 0 \in U
    BY <1>2, <1>18, <1>24
  <2>2. ASSUME NEW k \in 1 .. Len(d.nodes), k - 1 \in U PROVE k \in U
    <3>1. k \in 0 .. Len(d.nodes) /\ searched[k - 1] \in S /\ d.nodes[k].id \in ids
      BY <1>2, <2>2
    <3>2. visit[depth] \in [ids \X S -> S]
      BY <1>2, <1>13 DEF Calls
    <3>3. visit[depth][<<d.nodes[k].id, searched[k - 1]>>] \in S
      BY <3>1, <3>2
    <3>. QED
      BY <1>25, <3>1, <3>3
  <2>. HIDE DEF U
  <2>3. \A k \in 0 .. Len(d.nodes) : k \in U
    BY <1>2, <2>1, <2>2, InductUpTo
  <2>4. \A k \in 0 .. Len(d.nodes) : searched[k] \in S
    BY <2>3 DEF U
  <2>. QED
    BY <1>23, <2>4
<1>27. IsSearch(visit, searched, d, depth, adjacency, ids)
  BY <1>1, <1>13, <1>14, <1>15, <1>24, <1>25, <1>26 DEF IsSearch, Calls, S, nothing
<1>28. \E v, s : IsSearch(v, s, d, depth, adjacency, ids)
  BY <1>27
<1>. QED
  BY <1>28 DEF depth, adjacency, ids

(* The search flags somebody exactly where there is a cycle, for any graph. *)
LEMMA CyclesFound ==
    ASSUME NEW d, IsGraph(d), Edges(d) \subseteq nodeIds(d) \X nodeIds(d)
    PROVE  cyclicNodeIds(d) = {} <=> Acyclic(Edges(d))
<1>. DEFINE N == nodeIds(d)
            E == Edges(d)
            S == SearchState(N)
            depth == Cardinality(N) + 1
            adjacency == buildAdjacency(d)
            last == Len(d.nodes)
<1>1. /\ last \in Nat /\ last \in 0 .. last /\ IsFiniteSet(N) /\ Cardinality(N) \in Nat
      /\ \A k \in 1 .. last : d.nodes[k].id \in N
      /\ \A n \in N : \E k \in 1 .. last : n = d.nodes[k].id
  <2>1. IsSeq(d.nodes) /\ last \in Nat /\ DOMAIN d.nodes = 1 .. last
    BY DEF IsGraph, IsSeq
  <2>2. IsFiniteSet(N) /\ Cardinality(N) \in Nat
    BY <2>1, SequenceFinite DEF nodeIds
  <2>3. /\ \A k \in 1 .. last : d.nodes[k].id \in N
        /\ \A n \in N : \E k \in 1 .. last : n = d.nodes[k].id
    BY <2>1 DEF nodeIds, ToSet
  <2>. QED
    BY <2>1, <2>2, <2>3
<1>2. IsAdjacency(adjacency, N, E)
  BY AdjacencyOfGraph
<1>3. PICK visit, searched : IsSearch(visit, searched, d, depth, adjacency, N)
  BY SearchExists
<1>. HIDE DEF N, E, depth, adjacency, last
<1>4. /\ depth \in Nat /\ depth \in 0 .. depth /\ Cardinality(N) < depth
  BY <1>1 DEF depth
<1>5. /\ visit \in [0 .. depth -> [N \X S -> S]]
      /\ \A k \in 1 .. depth : \A n \in N, s \in S :
            visit[k][<<n, s>>] = visitNode(n, adjacency[n], s, visit[k - 1])
      /\ \A n \in N, s \in S : visit[0][<<n, s>>] = s
  BY <1>3 DEF IsSearch
<1>6. /\ searched \in [0 .. last -> S]
      /\ searched[0] = [visiting |-> {}, visited |-> {}, cyclic |-> {}]
      /\ \A k \in 1 .. last : searched[k] = visit[depth][<<d.nodes[k].id, searched[k - 1]>>]
      /\ cyclicNodeIds(d) = searched[last].cyclic
  BY <1>3 DEF IsSearch, last
<1>. HIDE DEF S
<1>7. ASSUME Acyclic(E) PROVE cyclicNodeIds(d) = {}
  <2>. DEFINE T == {k \in 0 .. depth : FlagsNobody(visit[k], N, E)}
  <2>1. 0 \in T
    BY <1>4, <1>5 DEF FlagsNobody, StaysClean, S
  <2>2. ASSUME NEW k \in 1 .. depth, k - 1 \in T PROVE k \in T
    <3>1. /\ k \in 0 .. depth /\ k - 1 \in 0 .. depth
      BY <1>4
    <3>2. visit[k - 1] \in [N \X S -> S] /\ FlagsNobody(visit[k - 1], N, E)
      BY <1>5, <2>2, <3>1
    <3>3. ASSUME NEW n \in N, NEW s \in S, s.cyclic = {}, IsTrail(n, s.visiting, E)
          PROVE  StaysClean(s, visit[k][<<n, s>>])
      <4>1. visit[k][<<n, s>>] = visitNode(n, adjacency[n], s, visit[k - 1])
        BY <1>5
      <4>2. StaysClean(s, visitNode(n, adjacency[n], s, visit[k - 1]))
        BY <1>2, <1>7, <3>2, <3>3, NobodyFlagged DEF S
      <4>. QED
        BY <4>1, <4>2
    <3>4. FlagsNobody(visit[k], N, E)
      BY <3>3 DEF FlagsNobody, S
    <3>. QED
      BY <3>1, <3>4
  <2>. HIDE DEF T
  <2>3. FlagsNobody(visit[depth], N, E)
    <3>1. \A k \in 0 .. depth : k \in T
      BY <1>4, <2>1, <2>2, InductUpTo
    <3>. QED
      BY <1>4, <3>1 DEF T
  <2>. DEFINE U == {k \in 0 .. last : searched[k].cyclic = {} /\ searched[k].visiting = {}}
  <2>4. 0 \in U
    BY <1>1, <1>6
  <2>5. ASSUME NEW k \in 1 .. last, k - 1 \in U PROVE k \in U
    <3>1. /\ k \in 0 .. last /\ k - 1 \in 0 .. last /\ d.nodes[k].id \in N
          /\ searched[k - 1].cyclic = {} /\ searched[k - 1].visiting = {}
      BY <1>1, <2>5
    <3>2. IsTrail(d.nodes[k].id, searched[k - 1].visiting, E) /\ searched[k - 1] \in S
      BY <1>6, <3>1 DEF IsTrail
    <3>3. /\ visit[depth][<<d.nodes[k].id, searched[k - 1]>>].cyclic = {}
          /\ visit[depth][<<d.nodes[k].id, searched[k - 1]>>].visiting = {}
      BY <2>3, <3>1, <3>2 DEF FlagsNobody, StaysClean, S
    <3>. QED
      BY <1>6, <3>1, <3>3
  <2>. HIDE DEF U
  <2>6. last \in U
    <3>1. \A k \in 0 .. last : k \in U
      BY <1>1, <2>4, <2>5, InductUpTo
    <3>. QED
      BY <1>1, <3>1
  <2>. QED
    BY <1>6, <2>6 DEF U
<1>8. ASSUME cyclicNodeIds(d) = {} PROVE Acyclic(E)
  <2>. DEFINE T == {k \in 0 .. depth : MissesNone(visit[k], k, N, E)}
  <2>1. 0 \in T
    <3>1. ASSUME NEW s \in S PROVE ~(Cardinality(N \ s.visiting) < 0)
      <4>1. IsFiniteSet(N \ s.visiting)
        BY <1>1, FS_Subset
      <4>2. Cardinality(N \ s.visiting) \in Nat
        BY <4>1, FS_CardinalityType
      <4>. QED
        BY <4>2
    <3>. QED
      BY <1>4, <3>1 DEF MissesNone, S
  <2>2. ASSUME NEW k \in 1 .. depth, k - 1 \in T PROVE k \in T
    <3>1. /\ k \in 0 .. depth /\ k - 1 \in 0 .. depth /\ k - 1 \in Nat /\ k = (k - 1) + 1
      BY <1>4
    <3>2. visit[k - 1] \in [N \X S -> S] /\ MissesNone(visit[k - 1], k - 1, N, E)
      BY <1>5, <2>2, <3>1
    <3>3. ASSUME NEW n \in N, NEW s \in S, Cardinality(N \ s.visiting) < k, NoneMissed(s, E)
          PROVE  Visits(n, s, visit[k][<<n, s>>], E)
      <4>1. visit[k][<<n, s>>] = visitNode(n, adjacency[n], s, visit[k - 1])
        BY <1>5
      <4>2. Cardinality(N \ s.visiting) < (k - 1) + 1
        BY <3>1, <3>3
      <4>3. Visits(n, s, visitNode(n, adjacency[n], s, visit[k - 1]), E)
        BY <1>1, <1>2, <3>1, <3>2, <3>3, <4>2, NoneIsMissed DEF S
      <4>. QED
        BY <4>1, <4>3
    <3>4. MissesNone(visit[k], k, N, E)
      BY <3>3 DEF MissesNone, S
    <3>. QED
      BY <3>1, <3>4
  <2>. HIDE DEF T
  <2>3. MissesNone(visit[depth], depth, N, E)
    <3>1. \A k \in 0 .. depth : k \in T
      BY <1>4, <2>1, <2>2, InductUpTo
    <3>. QED
      BY <1>4, <3>1 DEF T
  <2>. DEFINE Good(k) ==
          /\ searched[k].visiting = {} /\ NoneMissed(searched[k], E)
          /\ searched[k].cyclic = {}
               => \A i \in 1 .. k : d.nodes[i].id \in searched[k].visited
              U == {k \in 0 .. last : Good(k)}
  <2>4. 0 \in U
    <3>1. searched[0].visiting = {} /\ NoneMissed(searched[0], E) /\ 1 .. 0 = {}
      BY <1>6 DEF NoneMissed
    <3>. QED
      BY <1>1, <3>1
  <2>5. ASSUME NEW k \in 1 .. last, k - 1 \in U PROVE k \in U
    <3>. DEFINE before == searched[k - 1]
                id == d.nodes[k].id
    <3>1. k \in 0 .. last /\ k - 1 \in 0 .. last /\ id \in N
      BY <1>1
    <3>2. before \in S /\ before.visiting = {} /\ NoneMissed(before, E)
      BY <1>6, <2>5, <3>1
    <3>3. before.cyclic = {} => \A i \in 1 .. k - 1 : d.nodes[i].id \in before.visited
      BY <2>5
    <3>4. searched[k] = visit[depth][<<id, before>>]
      BY <1>6
    <3>. HIDE DEF before, id
    <3>5. Visits(id, before, searched[k], E)
      <4>1. N \ before.visiting = N
        BY <3>2
      <4>2. Cardinality(N \ before.visiting) < depth
        BY <1>4, <4>1
      <4>. QED
        BY <2>3, <3>1, <3>2, <3>4, <4>2 DEF MissesNone, S
    <3>6. searched[k].visiting = {} /\ NoneMissed(searched[k], E)
      BY <3>2, <3>5 DEF Visits
    <3>7. ASSUME searched[k].cyclic = {}, NEW i \in 1 .. k
          PROVE  d.nodes[i].id \in searched[k].visited
      <4>1. i = k \/ i \in 1 .. k - 1
        BY <1>1
      <4>2. before.cyclic = {} /\ before.visited \subseteq searched[k].visited
            /\ id \in searched[k].visited
        BY <3>5, <3>7 DEF Visits
      <4>. QED
        BY <3>3, <4>1, <4>2 DEF id
    <3>. QED
      BY <3>1, <3>6, <3>7
  <2>6. Good(last)
    <3>. HIDE DEF Good, U
    <3>1. \A k \in 0 .. last : k \in U
      BY <1>1, <2>4, <2>5, InductUpTo
    <3>. QED
      BY <1>1, <3>1 DEF U
  <2>7. \A n \in N : n \in searched[last].visited
    <3>1. \A i \in 1 .. last : d.nodes[i].id \in searched[last].visited
      BY <1>6, <1>8, <2>6
    <3>. QED
      BY <1>1, <3>1
  <2>. SUFFICES ASSUME NEW C, IsCycle(C, E) PROVE FALSE
    BY DEF Acyclic
  <2>8. C \cap searched[last].visited = {}
    BY <1>6, <1>8, <2>6 DEF NoneMissed
  <2>9. PICK m \in C, n \in C : <<m, n>> \in E
    BY DEF IsCycle
  <2>10. m \in N
    BY <1>2, <2>9 DEF IsAdjacency
  <2>. QED
    BY <2>7, <2>8, <2>10
<1>. QED
  BY <1>7, <1>8 DEF E

-----------------------------------------------------------------------------
(* The validation. *)

LEMMA GraphParts ==
    ASSUME NEW d, IsGraph(d)
    PROVE  /\ IsSeq(d.nodes) /\ IsSeq(d.edges)
           /\ IsFiniteSet(nodeIds(d)) /\ Cardinality(nodeIds(d)) \in Nat
           /\ Cardinality(nodeIds(d)) = Len(d.nodes) <=> DistinctIds(d.nodes)
           /\ Cardinality({e.id : e \in ToSet(d.edges)}) = Len(d.edges)
                <=> DistinctIds(d.edges)
<1>1. IsSeq(d.nodes) /\ IsSeq(d.edges)
  BY DEF IsGraph, IsSeq
<1>2. /\ IsFiniteSet(nodeIds(d)) /\ Cardinality(nodeIds(d)) \in Nat
      /\ Cardinality(nodeIds(d)) = Len(d.nodes) <=> DistinctIds(d.nodes)
  BY <1>1, SequenceFinite DEF nodeIds
<1>3. Cardinality({e.id : e \in ToSet(d.edges)}) = Len(d.edges) <=> DistinctIds(d.edges)
  BY <1>1, SequenceFinite
<1>. QED
  BY <1>1, <1>2, <1>3

NoDangling(d) == Edges(d) \subseteq nodeIds(d) \X nodeIds(d)

StartKept(d) == \A m, n : <<m, n>> \in Edges(d) => n \notin IdsOf(d.nodes, {"start"})

EndsKept(d) == \A m, n : <<m, n>> \in Edges(d) => m \notin IdsOf(d.nodes, Terminal)

LEMMA ShapeErrors ==
    ASSUME NEW d, IsGraph(d)
    PROVE  \A c : c \in shapeErrors(d) <=>
              \/ c = "DUPLICATE_NODE_ID" /\ ~DistinctIds(d.nodes)
              \/ c = "DUPLICATE_EDGE_ID" /\ ~DistinctIds(d.edges)
              \/ c = "DANGLING_EDGE" /\ ~NoDangling(d)
              \/ c = "MISSING_START" /\ Len(starts(d)) # 1
              \/ c = "START_HAS_INCOMING_EDGE" /\ ~StartKept(d)
              \/ c = "MISSING_TERMINAL" /\ IdsOf(d.nodes, Terminal) = {}
              \/ c = "TERMINAL_HAS_OUTGOING_EDGE" /\ ~EndsKept(d)
<1>. DEFINE sources == {e.source : e \in ToSet(d.edges)}
            targets == {e.target : e \in ToSet(d.edges)}
<1>1. \A m, n : <<m, n>> \in Edges(d)
                  <=> \E e \in ToSet(d.edges) : e.source = m /\ e.target = n
  BY DEF Edges
<1>2. (sources \cup targets) \subseteq nodeIds(d) <=> NoDangling(d)
  <2>1. ASSUME (sources \cup targets) \subseteq nodeIds(d) PROVE NoDangling(d)
    BY <2>1 DEF NoDangling, Edges
  <2>2. ASSUME NoDangling(d) PROVE (sources \cup targets) \subseteq nodeIds(d)
    <3>1. ASSUME NEW e \in ToSet(d.edges) PROVE e.source \in nodeIds(d) /\ e.target \in nodeIds(d)
      <4>1. <<e.source, e.target>> \in Edges(d)
        BY <1>1
      <4>. QED
        BY <2>2, <4>1 DEF NoDangling
    <3>. QED
      BY <3>1
  <2>. QED
    BY <2>1, <2>2
<1>3. IdsOf(d.nodes, {"start"}) \cap targets # {} <=> ~StartKept(d)
  <2>1. \A e \in ToSet(d.edges) : <<e.source, e.target>> \in Edges(d)
    BY <1>1
  <2>2. \A n : n \in targets <=> \E m : <<m, n>> \in Edges(d)
    BY <1>1, <2>1
  <2>. HIDE DEF targets
  <2>. QED
    BY <2>2 DEF StartKept
<1>4. IdsOf(d.nodes, Terminal) \cap sources # {} <=> ~EndsKept(d)
  <2>1. \A e \in ToSet(d.edges) : <<e.source, e.target>> \in Edges(d)
    BY <1>1
  <2>2. ASSUME NEW m PROVE m \in sources <=> \E n : <<m, n>> \in Edges(d)
    <3>1. ASSUME m \in sources PROVE \E n : <<m, n>> \in Edges(d)
      BY <2>1, <3>1
    <3>2. ASSUME NEW n, <<m, n>> \in Edges(d) PROVE m \in sources
      BY <1>1, <3>2
    <3>. QED
      BY <3>1, <3>2
  <2>. HIDE DEF sources
  <2>. QED
    BY <2>2 DEF EndsKept
<1>5. /\ Cardinality(nodeIds(d)) = Len(d.nodes) <=> DistinctIds(d.nodes)
      /\ Cardinality({e.id : e \in ToSet(d.edges)}) = Len(d.edges) <=> DistinctIds(d.edges)
  BY GraphParts
<1>6. \A c : c \in shapeErrors(d) <=>
              \/ c = "DUPLICATE_NODE_ID" /\ Cardinality(nodeIds(d)) # Len(d.nodes)
              \/ c = "DUPLICATE_EDGE_ID"
                   /\ Cardinality({e.id : e \in ToSet(d.edges)}) # Len(d.edges)
              \/ c = "DANGLING_EDGE" /\ ~((sources \cup targets) \subseteq nodeIds(d))
              \/ c = "MISSING_START" /\ Len(starts(d)) # 1
              \/ c = "START_HAS_INCOMING_EDGE" /\ IdsOf(d.nodes, {"start"}) \cap targets # {}
              \/ c = "MISSING_TERMINAL" /\ IdsOf(d.nodes, Terminal) = {}
              \/ c = "TERMINAL_HAS_OUTGOING_EDGE" /\ IdsOf(d.nodes, Terminal) \cap sources # {}
  BY DEF shapeErrors
<1>. HIDE DEF sources, targets
<1>. QED
  BY <1>2, <1>3, <1>4, <1>5, <1>6

(* What a page keeps to, whatever is drawn on it.                           *)
HasShape(d) ==
    /\ IsGraph(d) /\ DistinctIds(d.nodes) /\ DistinctIds(d.edges) /\ NoDangling(d)
    /\ \E s : IdsOf(d.nodes, {"start"}) = {s}
    /\ StartKept(d) /\ EndsKept(d) /\ Acyclic(Edges(d))

LEMMA OneStart ==
    ASSUME NEW d, IsGraph(d)
    PROVE  /\ Len(starts(d)) = 1 => /\ IdsOf(d.nodes, {"start"}) = {starts(d)[1].id}
                                    /\ starts(d)[1] \in ToSet(d.nodes)
           /\ DistinctIds(d.nodes) =>
                (Len(starts(d)) = 1 <=> \E s : IdsOf(d.nodes, {"start"}) = {s})
           /\ starts(d) = <<>> <=> Len(starts(d)) = 0
<1>. DEFINE r == starts(d)
<1>1. /\ IsSeq(r) /\ \A n : n \in ToSet(r) <=> n \in ToSet(d.nodes) /\ n.type = "start"
      /\ DistinctIds(d.nodes) => DistinctIds(r)
  <2>. DEFINE T == {n \in ToSet(d.nodes) : n.type = "start"}
  <2>1. r = Only(d.nodes, T) /\ IsSeq(d.nodes)
    BY GraphParts DEF starts
  <2>. HIDE DEF r, T
  <2>2. /\ IsSeq(r) /\ ToSet(r) = ToSet(d.nodes) \cap T
        /\ DistinctIds(d.nodes) => DistinctIds(r)
    BY <2>1, OnlyKeeps
  <2>. QED
    BY <2>2 DEF T
<1>. HIDE DEF r
<1>2. \A x : x \in IdsOf(d.nodes, {"start"}) <=> \E n \in ToSet(r) : x = n.id
  BY <1>1 DEF IdsOf
<1>3. /\ r \in Seq(ToSet(r)) /\ DOMAIN r = 1 .. Len(r) /\ Len(r) \in Nat
      /\ \A n : n \in ToSet(r) <=> \E i \in 1 .. Len(r) : n = r[i]
  BY <1>1 DEF IsSeq, ToSet
<1>4. ASSUME Len(r) = 1
      PROVE  IdsOf(d.nodes, {"start"}) = {r[1].id} /\ r[1] \in ToSet(d.nodes)
  <2>1. \A n : n \in ToSet(r) <=> n = r[1]
    BY <1>3, <1>4
  <2>. QED
    BY <1>1, <1>2, <2>1
<1>5. ASSUME DistinctIds(d.nodes), NEW s, IdsOf(d.nodes, {"start"}) = {s}
      PROVE  Len(r) = 1
  <2>1. Len(r) # 0
    <3>1. PICK n \in ToSet(r) : s = n.id
      BY <1>2, <1>5
    <3>2. PICK i \in 1 .. Len(r) : n = r[i]
      BY <1>3, <3>1
    <3>. QED
      BY <1>3, <3>2
  <2>2. ASSUME Len(r) > 1 PROVE FALSE
    <3>1. 1 \in DOMAIN r /\ 2 \in DOMAIN r
      BY <1>3, <2>2
    <3>2. r[1] \in ToSet(r) /\ r[2] \in ToSet(r)
      BY <3>1 DEF ToSet
    <3>3. r[1].id = s /\ r[2].id = s
      BY <1>2, <1>5, <3>2
    <3>4. 1 = 2
      BY <1>1, <1>5, <3>1, <3>3 DEF DistinctIds
    <3>. QED
      BY <3>4
  <2>. QED
    BY <1>3, <2>1, <2>2
<1>6. r = <<>> <=> Len(r) = 0
  BY <1>3
<1>. QED
  BY <1>4, <1>5, <1>6 DEF r

(* What the validation finds, of any graph: a page's graph has its shape    *)
(* exactly when nothing is wrong but what three of the codes stand for.     *)
LEMMA ShapeIsValidated ==
    ASSUME NEW d, IsGraph(d)
    PROVE  HasShape(d) <=>
             validateAgentWorkflowDefinition(d)
               \subseteq {"ORPHANED_NODE", "UNREACHABLE_TERMINAL", "MISSING_TERMINAL"}
<1>1. \A c : c \in searchErrors(d) => c \in {"ORPHANED_NODE", "UNSUPPORTED_CYCLE",
                                             "UNREACHABLE_TERMINAL"}
  BY DEF searchErrors
<1>2. "UNSUPPORTED_CYCLE" \in searchErrors(d) <=> cyclicNodeIds(d) # {}
  BY DEF searchErrors
<1>3. NoDangling(d) => (cyclicNodeIds(d) = {} <=> Acyclic(Edges(d)))
  BY CyclesFound DEF NoDangling
<1>4. DistinctIds(d.nodes) => (Len(starts(d)) = 1 <=> \E s : IdsOf(d.nodes, {"start"}) = {s})
  BY OneStart
<1>. DEFINE rest == {"ORPHANED_NODE", "UNREACHABLE_TERMINAL", "MISSING_TERMINAL"}
            Sane == /\ DistinctIds(d.nodes) /\ DistinctIds(d.edges) /\ NoDangling(d)
                    /\ Len(starts(d)) = 1 /\ StartKept(d) /\ EndsKept(d)
<1>5. shapeErrors(d) \subseteq rest <=> Sane
  <2>1. ASSUME Sane PROVE shapeErrors(d) \subseteq rest
    BY <2>1, ShapeErrors
  <2>2. ASSUME shapeErrors(d) \subseteq rest PROVE Sane
    BY <2>2, ShapeErrors
  <2>. QED
    BY <2>1, <2>2
<1>6. searchErrors(d) \subseteq rest <=> cyclicNodeIds(d) = {}
  BY <1>1, <1>2
<1>7. "DANGLING_EDGE" \in shapeErrors(d) <=> ~NoDangling(d)
  BY ShapeErrors
<1>8. validateAgentWorkflowDefinition(d) \subseteq rest
        <=> Sane /\ (NoDangling(d) => cyclicNodeIds(d) = {})
  <2>1. CASE NoDangling(d)
    <3>1. validateAgentWorkflowDefinition(d) = shapeErrors(d) \cup searchErrors(d)
      BY <1>7, <2>1 DEF validateAgentWorkflowDefinition
    <3>. HIDE DEF rest, Sane
    <3>. QED
      BY <1>5, <1>6, <2>1, <3>1
  <2>2. CASE ~NoDangling(d)
    <3>1. validateAgentWorkflowDefinition(d) = shapeErrors(d)
      BY <1>7, <2>2 DEF validateAgentWorkflowDefinition
    <3>. QED
      BY <1>5, <2>2, <3>1
  <2>. QED
    BY <2>1, <2>2
<1>. HIDE DEF rest
<1>. QED
  BY <1>3, <1>4, <1>8 DEF HasShape, rest

LEMMA ReachedInGraph ==
    ASSUME NEW d, IsGraph(d), NoDangling(d), NEW m \in nodeIds(d)
    PROVE  /\ reachableFrom(m, buildAdjacency(d)) \subseteq nodeIds(d)
           /\ m \in reachableFrom(m, buildAdjacency(d))
           /\ Closed(reachableFrom(m, buildAdjacency(d)), Edges(d))
           /\ \A C : m \in C /\ Closed(C, Edges(d))
                => reachableFrom(m, buildAdjacency(d)) \subseteq C
           /\ \A n \in nodeIds(d) :
                n \in reachableFrom(m, buildAdjacency(d)) <=> Reaches(d, m, n)
<1>. DEFINE R == reachableFrom(m, buildAdjacency(d))
            N == nodeIds(d)
<1>1. IsAdjacency(buildAdjacency(d), N, Edges(d)) /\ IsFiniteSet(N)
  BY GraphParts, AdjacencyOfGraph DEF NoDangling
<1>2. /\ R \subseteq N /\ m \in R /\ Closed(R, Edges(d))
      /\ \A C : m \in C /\ Closed(C, Edges(d)) => R \subseteq C
  BY <1>1, Reached
<1>. HIDE DEF R, N
<1>3. \A C : Closed(C, Edges(d)) <=> \A e \in Edges(d) : e[1] \in C => e[2] \in C
  <2>1. \A e \in Edges(d) : e = <<e[1], e[2]>>
    BY DEF Edges
  <2>. QED
    BY <2>1 DEF Closed
<1>4. ASSUME NEW n \in N PROVE n \in R <=> Reaches(d, m, n)
  <2>1. Reaches(d, m, n) <=> \A C \in SUBSET N : m \in C /\ Closed(C, Edges(d)) => n \in C
    BY <1>3 DEF Reaches, N
  <2>. QED
    BY <1>2, <2>1
<1>. QED
  BY <1>2, <1>4 DEF R, N

LEMMA SearchErrors ==
    ASSUME NEW d, IsGraph(d), NoDangling(d), Len(starts(d)) = 1
    PROVE  searchErrors(d) = {} <=>
             /\ \A n \in nodeIds(d) : Reaches(d, starts(d)[1].id, n)
             /\ Acyclic(Edges(d))
             /\ \A n \in nodeIds(d) : \E t \in IdsOf(d.nodes, Terminal) : Reaches(d, n, t)
<1>. DEFINE s == starts(d)[1].id
            N == nodeIds(d)
            adjacency == buildAdjacency(d)
            terminals == IdsOf(d.nodes, Terminal)
<1>1. s \in N /\ starts(d) # <<>> /\ terminals \subseteq N
  BY OneStart DEF nodeIds, IdsOf
<1>2. reachableFrom(s, adjacency) = N <=> \A n \in N : Reaches(d, s, n)
  <2>1. reachableFrom(s, adjacency) \subseteq N
    BY <1>1, ReachedInGraph
  <2>2. \A n \in N : n \in reachableFrom(s, adjacency) <=> Reaches(d, s, n)
    BY <1>1, ReachedInGraph
  <2>. HIDE DEF s, N, adjacency
  <2>. QED
    BY <2>1, <2>2
<1>3. ASSUME NEW n \in N
      PROVE  canReachTerminal(n, adjacency, terminals) <=> \E t \in terminals : Reaches(d, n, t)
  <2>1. /\ reachableFrom(n, adjacency) \subseteq N
        /\ \A t \in N : t \in reachableFrom(n, adjacency) <=> Reaches(d, n, t)
    BY ReachedInGraph
  <2>. HIDE DEF N, adjacency, terminals
  <2>. QED
    BY <1>1, <2>1 DEF canReachTerminal
<1>4. cyclicNodeIds(d) = {} <=> Acyclic(Edges(d))
  BY CyclesFound DEF NoDangling
<1>5. searchErrors(d) = {} <=>
        /\ ~(starts(d) # <<>> /\ reachableFrom(s, adjacency) # N)
        /\ cyclicNodeIds(d) = {}
        /\ ~\E n \in N : ~canReachTerminal(n, adjacency, terminals)
  BY DEF searchErrors
<1>. HIDE DEF s, N, adjacency, terminals
<1>6. searchErrors(d) = {} <=>
        /\ \A n \in N : Reaches(d, s, n)
        /\ Acyclic(Edges(d))
        /\ \A n \in N : \E t \in terminals : Reaches(d, n, t)
  BY <1>1, <1>2, <1>3, <1>4, <1>5
<1>. QED
  BY <1>6 DEF s, N, adjacency, terminals

LEMMA CyclesAreCycles ==
    ASSUME NEW d, NoDangling(d)
    PROVE  HasCycle(d) <=> ~Acyclic(Edges(d))
<1>1. ASSUME NEW C, IsCycle(C, Edges(d)) PROVE C \in (SUBSET nodeIds(d)) \ {{}}
  BY <1>1 DEF IsCycle, NoDangling
<1>. QED
  BY <1>1 DEF HasCycle, Acyclic, IsCycle

(* The validation refuses whatever is not well formed, and nothing else:    *)
(* the searches of validateAgentWorkflowDefinition(), with their stack and  *)
(* their three sets, find what they are meant to find in any graph.         *)
THEOREM ValidationIsExact ==
    ASSUME NEW d, IsGraph(d)
    PROVE  Accepted(d) <=> WellFormed(d)
<1>. DEFINE N == nodeIds(d)
            Shaped(s) ==
               /\ IdsOf(d.nodes, {"start"}) = {s}
               /\ \A e \in Edges(d) : e[2] # s
               /\ \A n \in N : Reaches(d, s, n)
            Ends == \A n \in N : \E t \in IdsOf(d.nodes, Terminal) : Reaches(d, n, t)
<1>1. \A e \in Edges(d) : e = <<e[1], e[2]>>
  BY DEF Edges
<1>2. NoDangling(d) <=> \A e \in Edges(d) : e[1] \in N /\ e[2] \in N
  BY <1>1 DEF NoDangling
<1>3. EndsKept(d) <=> \A n \in IdsOf(d.nodes, Terminal), e \in Edges(d) : e[1] # n
  BY <1>1 DEF EndsKept
<1>4. ASSUME NEW s, IdsOf(d.nodes, {"start"}) = {s}
      PROVE  StartKept(d) <=> \A e \in Edges(d) : e[2] # s
  BY <1>1, <1>4 DEF StartKept
<1>5. /\ Cardinality(N) = Len(d.nodes) <=> DistinctIds(d.nodes)
      /\ Cardinality({e.id : e \in ToSet(d.edges)}) = Len(d.edges) <=> DistinctIds(d.edges)
  BY GraphParts
<1>6. WellFormed(d) <=>
        /\ DistinctIds(d.nodes) /\ DistinctIds(d.edges) /\ NoDangling(d)
        /\ \E s \in N : Shaped(s)
        /\ EndsKept(d) /\ Ends /\ ~HasCycle(d)
  BY <1>2, <1>3, <1>5 DEF WellFormed
<1>7. shapeErrors(d) = {} <=>
        /\ DistinctIds(d.nodes) /\ DistinctIds(d.edges) /\ NoDangling(d)
        /\ Len(starts(d)) = 1 /\ StartKept(d) /\ EndsKept(d)
        /\ IdsOf(d.nodes, Terminal) # {}
  <2>1. shapeErrors(d) = {} <=> \A c : c \notin shapeErrors(d)
    OBVIOUS
  <2>. QED
    BY <2>1, ShapeErrors
<1>8. Accepted(d) <=> shapeErrors(d) = {} /\ searchErrors(d) = {}
  <2>1. shapeErrors(d) = {} => "DANGLING_EDGE" \notin shapeErrors(d)
    OBVIOUS
  <2>. QED
    BY <2>1 DEF Accepted, validateAgentWorkflowDefinition
<1>9. ASSUME NoDangling(d) PROVE HasCycle(d) <=> ~Acyclic(Edges(d))
  BY <1>9, CyclesAreCycles
<1>10. ASSUME Accepted(d) PROVE WellFormed(d)
  <2>. DEFINE s == starts(d)[1].id
  <2>1. Len(starts(d)) = 1 /\ StartKept(d) /\ NoDangling(d)
    BY <1>7, <1>8, <1>10
  <2>2. IdsOf(d.nodes, {"start"}) = {s} /\ s \in N
    BY <2>1, OneStart DEF nodeIds
  <2>3. (\A n \in N : Reaches(d, s, n)) /\ Acyclic(Edges(d)) /\ Ends
    BY <1>8, <1>10, <2>1, SearchErrors
  <2>. HIDE DEF s, N, Ends
  <2>4. Shaped(s)
    BY <1>4, <2>1, <2>2, <2>3
  <2>. HIDE DEF Shaped
  <2>. QED
    BY <1>6, <1>7, <1>8, <1>9, <1>10, <2>1, <2>2, <2>3, <2>4
<1>11. ASSUME WellFormed(d) PROVE Accepted(d)
  <2>1. PICK s \in N : Shaped(s)
    BY <1>6, <1>11
  <2>2. /\ DistinctIds(d.nodes) /\ DistinctIds(d.edges) /\ NoDangling(d) /\ EndsKept(d)
        /\ Ends /\ Acyclic(Edges(d))
    BY <1>6, <1>9, <1>11
  <2>3. Len(starts(d)) = 1
    BY <2>1, <2>2, OneStart
  <2>4. starts(d)[1].id = s
    BY <2>1, <2>3, OneStart
  <2>5. StartKept(d)
    BY <1>4, <2>1
  <2>6. IdsOf(d.nodes, Terminal) # {}
    BY <2>1, <2>2
  <2>7. searchErrors(d) = {}
    BY <2>1, <2>2, <2>3, <2>4, SearchErrors
  <2>. QED
    BY <1>7, <1>8, <2>2, <2>3, <2>5, <2>6, <2>7
<1>. QED
  BY <1>10, <1>11

-----------------------------------------------------------------------------
(* The page's edits. *)

LEMMA AppendKeeps ==
    ASSUME NEW s, IsSeq(s), NEW x
    PROVE  /\ IsSeq(Append(s, x)) /\ ToSet(Append(s, x)) = ToSet(s) \cup {x}
           /\ DistinctIds(s) /\ (\A y \in ToSet(s) : y.id # x.id) => DistinctIds(Append(s, x))
<1>. DEFINE S == ToSet(s) \cup {x}
            q == Append(s, x)
<1>1. s \in Seq(S) /\ DOMAIN s = 1 .. Len(s) /\ Len(s) \in Nat
  BY DEF IsSeq
<1>2. /\ q \in Seq(S) /\ DOMAIN q = 1 .. Len(s) + 1
      /\ \A i \in 1 .. Len(s) : q[i] = s[i]
      /\ q[Len(s) + 1] = x
  <2>. HIDE DEF S
  <2>1. x \in S
    BY DEF S
  <2>. QED
    BY <1>1, <2>1
<1>3. /\ \A i : i \in DOMAIN q <=> i \in DOMAIN s \/ i = Len(s) + 1
      /\ \A i \in DOMAIN s : q[i] = s[i]
      /\ Len(s) + 1 \notin DOMAIN s
  BY <1>1, <1>2
<1>. HIDE DEF q
<1>4. ToSet(q) = S
  BY <1>2, <1>3 DEF ToSet
<1>5. ASSUME DistinctIds(s), \A y \in ToSet(s) : y.id # x.id PROVE DistinctIds(q)
  <2>1. \A i \in DOMAIN s : q[i].id # x.id
    BY <1>3, <1>5 DEF ToSet
  <2>. QED
    BY <1>2, <1>3, <1>5, <2>1 DEF DistinctIds
<1>6. IsSeq(q)
  BY <1>2, <1>4 DEF IsSeq
<1>. QED
  BY <1>4, <1>5, <1>6 DEF q

LEMMA OneOfAnId ==
    ASSUME NEW s, DistinctIds(s), NEW x \in ToSet(s), NEW y \in ToSet(s), x.id = y.id
    PROVE  x = y
<1>1. PICK i \in DOMAIN s, j \in DOMAIN s : x = s[i] /\ y = s[j]
  BY DEF ToSet
<1>. QED
  BY <1>1 DEF DistinctIds

LEMMA TypeOfNode ==
    ASSUME NEW d, DistinctIds(d.nodes), NEW id \in nodeIds(d), NEW types
    PROVE  TypeOf(d, id) \in types <=> id \in IdsOf(d.nodes, types)
<1>. DEFINE n == CHOOSE n \in ToSet(d.nodes) : n.id = id
<1>1. n \in ToSet(d.nodes) /\ n.id = id
  BY DEF nodeIds
<1>2. TypeOf(d, id) = n.type
  BY DEF TypeOf
<1>. HIDE DEF n
<1>3. ASSUME NEW m \in ToSet(d.nodes), m.id = id PROVE m = n
  BY <1>1, <1>3, OneOfAnId
<1>4. id \in IdsOf(d.nodes, types) <=> \E m \in ToSet(d.nodes) : m.type \in types /\ m.id = id
  BY DEF IdsOf
<1>. QED
  BY <1>1, <1>2, <1>3, <1>4

LEMMA SmallerIsAcyclic ==
    ASSUME NEW E, Acyclic(E), NEW F, F \subseteq E
    PROVE  Acyclic(F)
BY DEF Acyclic, IsCycle

(* Where edges may go. *)
IsDrawable(d, F) ==
    /\ F \subseteq nodeIds(d) \X nodeIds(d) /\ Acyclic(F)
    /\ \A m, n : <<m, n>> \in F => /\ n \notin IdsOf(d.nodes, {"start"})
                                   /\ m \notin IdsOf(d.nodes, Terminal)

LEMMA Redrawn ==
    ASSUME NEW d, HasShape(d), NEW F, IsDrawable(d, F),
           NEW g, DOMAIN g = {"nodes", "edges"}, g.nodes = d.nodes, IsSeq(g.edges),
           \A e \in ToSet(g.edges) : DOMAIN e = {"id", "source", "target", "condition"},
           DistinctIds(g.edges), Edges(g) \subseteq F
    PROVE  HasShape(g)
<1>1. nodeIds(g) = nodeIds(d)
  BY DEF nodeIds
<1>2. IsGraph(g)
  BY DEF HasShape, IsGraph, IsSeq
<1>3. Acyclic(Edges(g))
  BY SmallerIsAcyclic DEF IsDrawable
<1>4. NoDangling(g) /\ StartKept(g) /\ EndsKept(g)
  BY <1>1 DEF IsDrawable, NoDangling, StartKept, EndsKept
<1>. QED
  BY <1>2, <1>3, <1>4 DEF HasShape

LEMMA ShapeIsDrawable ==
    ASSUME NEW d, HasShape(d)
    PROVE  IsDrawable(d, Edges(d))
BY DEF HasShape, IsDrawable, NoDangling, StartKept, EndsKept

LEMMA EdgeRecord ==
    ASSUME NEW id, NEW source, NEW target, NEW condition
    PROVE  LET e == [id |-> id, source |-> source, target |-> target, condition |-> condition]
           IN /\ e.id = id /\ e.source = source /\ e.target = target
              /\ DOMAIN e = {"id", "source", "target", "condition"}
OBVIOUS

(* Whatever edge the page lets through, it closes no cycle with the others: *)
(* a new cycle leads through it, and createsCycle() follows it around.      *)
LEMMA NoNewCycle ==
    ASSUME NEW N, IsFiniteSet(N), NEW E, Acyclic(E), NEW s \in N, NEW t \in N, NEW adjacency,
           IsAdjacency(adjacency, N, E \cup {<<s, t>>}),
           ~\E n \in reachableFrom(s, adjacency) : \E target \in ToSet(adjacency[n]) :
               n \in reachableFrom(target, adjacency)
    PROVE  Acyclic(E \cup {<<s, t>>})
<1>. DEFINE F == E \cup {<<s, t>>}
<1>. SUFFICES ASSUME NEW C, IsCycle(C, F) PROVE FALSE
  BY DEF Acyclic
<1>1. ASSUME NEW D, IsCycle(D, F) PROVE s \in D
  <2>. SUFFICES ASSUME s \notin D PROVE IsCycle(D, E)
    BY DEF Acyclic
  <2>1. \A m \in D : \A n : <<m, n>> \in F => <<m, n>> \in E
    OBVIOUS
  <2>. HIDE DEF F
  <2>. QED
    BY <1>1, <2>1 DEF IsCycle
<1>. HIDE DEF F
<1>2. PICK n \in C : <<s, n>> \in F
  BY <1>1 DEF IsCycle
<1>3. IsAdjacency(adjacency, N, F)
  BY DEF F
<1>4. n \in N /\ n \in ToSet(adjacency[s])
  BY <1>2, <1>3 DEF IsAdjacency
<1>. DEFINE R == reachableFrom(n, adjacency)
<1>5. n \in R /\ Closed(R, F)
  BY <1>3, <1>4, Reached
<1>. HIDE DEF R
<1>6. IsCycle(C \cap R, F)
  BY <1>2, <1>5 DEF IsCycle, Closed
<1>7. s \in R
  BY <1>1, <1>6
<1>8. s \in reachableFrom(s, adjacency)
  BY <1>3, Reached
<1>. QED
  BY <1>4, <1>7, <1>8 DEF R

OtherEdges(d, replacing) ==
    {<<e.source, e.target>> : e \in {x \in ToSet(d.edges) : x.id \notin replacing}}

LEMMA ConnectionIsDrawable ==
    ASSUME NEW d, HasShape(d), NEW s \in nodeIds(d), NEW t \in nodeIds(d), NEW tools,
           NEW replacing, ~invalidConnectionMessage(d, s, t, tools, replacing)
    PROVE  IsDrawable(d, OtherEdges(d, replacing) \cup {<<s, t>>})
<1>. DEFINE kept == {x \in ToSet(d.edges) : x.id \notin replacing}
            others == Only(d.edges, kept)
            edge == [id |-> Null, source |-> s, target |-> t, condition |-> "always"]
            g == [d EXCEPT !.edges = Append(others, edge)]
            E == OtherEdges(d, replacing)
<1>1. /\ ~(TypeOf(d, t) \in {"start"}) /\ ~(TypeOf(d, s) \in Terminal)
      /\ ~createsCycle(g, s)
  BY DEF invalidConnectionMessage
<1>2. t \notin IdsOf(d.nodes, {"start"}) /\ s \notin IdsOf(d.nodes, Terminal)
  BY <1>1, TypeOfNode DEF HasShape
<1>3. IsGraph(d) /\ DOMAIN d = {"nodes", "edges"} /\ IsSeq(d.edges)
  BY GraphParts DEF HasShape, IsGraph
<1>4. /\ DOMAIN g = {"nodes", "edges"} /\ g.nodes = d.nodes
      /\ g.edges = Append(others, edge)
  BY <1>3
<1>5. IsSeq(others) /\ ToSet(others) = kept
  BY <1>3, OnlyKeeps
<1>6. /\ edge.source = s /\ edge.target = t
      /\ DOMAIN edge = {"id", "source", "target", "condition"}
  OBVIOUS
<1>. HIDE DEF edge, others
<1>7. IsSeq(g.edges) /\ ToSet(g.edges) = kept \cup {edge}
  BY <1>4, <1>5, AppendKeeps
<1>. HIDE DEF g
<1>8. IsGraph(g) /\ nodeIds(g) = nodeIds(d)
  BY <1>3, <1>4, <1>6, <1>7 DEF IsGraph, IsSeq, nodeIds
<1>9. Edges(g) = E \cup {<<s, t>>}
  BY <1>6, <1>7 DEF Edges, OtherEdges
<1>10. E \subseteq Edges(d)
  BY DEF OtherEdges, Edges
<1>. HIDE DEF E
<1>11. Acyclic(E) /\ E \subseteq nodeIds(d) \X nodeIds(d)
  BY <1>10, SmallerIsAcyclic DEF HasShape, NoDangling
<1>12. IsAdjacency(buildAdjacency(g), nodeIds(d), E \cup {<<s, t>>})
  BY <1>8, <1>9, <1>11, AdjacencyOfGraph
<1>13. Acyclic(E \cup {<<s, t>>})
  <2>1. IsFiniteSet(nodeIds(d))
    BY <1>3, GraphParts
  <2>. QED
    BY <1>1, <1>11, <1>12, <2>1, NoNewCycle DEF createsCycle
<1>14. \A m, n : <<m, n>> \in E => /\ n \notin IdsOf(d.nodes, {"start"})
                                   /\ m \notin IdsOf(d.nodes, Terminal)
  BY <1>10 DEF HasShape, StartKept, EndsKept
<1>. QED
  BY <1>2, <1>11, <1>13, <1>14 DEF IsDrawable, E

LEMMA FreshNodeId ==
    ASSUME NEW s, IsSeq(s), DistinctIds(s), NEW type
    PROVE  \A x \in ToSet(s) : x.id # uniqueNodeId(type, s)
<1>. DEFINE ids == {x.id : x \in ToSet(s)}
            n == Len(s) + 1
            Free == {k \in 1 .. n : <<type, "-", k>> \notin ids}
<1>1. n \in Nat /\ IsFiniteSet(ids) /\ Cardinality(ids) \in Nat /\ Cardinality(ids) < n
  BY SequenceFinite
<1>2. Free # {}
  <2>. SUFFICES ASSUME Free = {} PROVE FALSE
    OBVIOUS
  <2>. DEFINE f == [k \in 1 .. n |-> <<type, "-", k>>]
  <2>1. f \in [1 .. n -> ids]
    OBVIOUS
  <2>2. IsFiniteSet(1 .. n) /\ Cardinality(1 .. n) = n
    <3>1. 1 \in Int /\ n \in Int /\ ~(1 > n) /\ n - 1 + 1 = n
      BY <1>1, SequenceFinite
    <3>. HIDE DEF n
    <3>. QED
      BY <3>1, FS_Interval
  <2>3. ASSUME NEW x \in 1 .. n, NEW y \in 1 .. n, f[x] = f[y] PROVE x = y
    BY <2>3
  <2>. HIDE DEF f, ids, n
  <2>. QED
    BY <1>1, <2>1, <2>2, <2>3, FS_PigeonHole
<1>3. Free \subseteq Nat
  BY <1>1
<1>4. uniqueNodeId(type, s) = <<type, "-", Min(Free)>>
  BY DEF uniqueNodeId
<1>5. Min(Free) \in Free
  <2>. HIDE DEF Free
  <2>1. \E k \in Free : \A m \in Free : k <= m
    BY <1>2, <1>3, LeastElement
  <2>. QED
    BY <2>1 DEF Min
<1>. QED
  BY <1>4, <1>5

LEMMA FreshEdgeId ==
    ASSUME NEW s, IsSeq(s), DistinctIds(s), NEW source, NEW target
    PROVE  \A x \in ToSet(s) : x.id # uniqueEdgeId(source, target, s)
<1>. DEFINE ids == {x.id : x \in ToSet(s)}
            n == Len(s)
            Free == {k \in 0 .. n : <<source, target, k>> \notin ids}
<1>1. n \in Nat /\ IsFiniteSet(ids) /\ Cardinality(ids) \in Nat /\ Cardinality(ids) < n + 1
  BY SequenceFinite
<1>2. Free # {}
  <2>. SUFFICES ASSUME Free = {} PROVE FALSE
    OBVIOUS
  <2>. DEFINE f == [k \in 0 .. n |-> <<source, target, k>>]
  <2>1. f \in [0 .. n -> ids]
    OBVIOUS
  <2>2. IsFiniteSet(0 .. n) /\ Cardinality(0 .. n) = n + 1
    <3>1. 0 \in Int /\ n \in Int /\ ~(0 > n) /\ n - 0 + 1 = n + 1
      BY <1>1
    <3>. HIDE DEF n
    <3>. QED
      BY <3>1, FS_Interval
  <2>3. ASSUME NEW x \in 0 .. n, NEW y \in 0 .. n, f[x] = f[y] PROVE x = y
    BY <2>3
  <2>. HIDE DEF f, ids, n
  <2>. QED
    BY <1>1, <2>1, <2>2, <2>3, FS_PigeonHole
<1>3. Free \subseteq Nat
  BY <1>1
<1>4. uniqueEdgeId(source, target, s) = <<source, target, Min(Free)>>
  BY DEF uniqueEdgeId
<1>5. Min(Free) \in Free
  <2>. HIDE DEF Free
  <2>1. \E k \in Free : \A m \in Free : k <= m
    BY <1>2, <1>3, LeastElement
  <2>. QED
    BY <2>1 DEF Min
<1>. QED
  BY <1>4, <1>5

LEMMA AddNodeKeepsShape ==
    ASSUME NEW d, HasShape(d), NEW type \in NodeTypes
    PROVE  HasShape(AddNode(d, type))
<1>. DEFINE node == [id |-> uniqueNodeId(type, d.nodes), type |-> type]
            g == AddNode(d, type)
<1>1. /\ IsGraph(d) /\ DOMAIN d = {"nodes", "edges"} /\ IsSeq(d.nodes)
      /\ DistinctIds(d.nodes) /\ DistinctIds(d.edges) /\ NoDangling(d)
  BY GraphParts DEF HasShape, IsGraph
<1>2. DOMAIN g = {"nodes", "edges"} /\ g.edges = d.edges /\ g.nodes = Append(d.nodes, node)
  BY <1>1 DEF AddNode
<1>3. /\ node.id = uniqueNodeId(type, d.nodes) /\ node.type = type
      /\ DOMAIN node = {"id", "type"}
  OBVIOUS
<1>. HIDE DEF node, g
<1>4. \A x \in ToSet(d.nodes) : x.id # node.id
  BY <1>1, <1>3, FreshNodeId
<1>5. IsSeq(g.nodes) /\ ToSet(g.nodes) = ToSet(d.nodes) \cup {node} /\ DistinctIds(g.nodes)
  BY <1>1, <1>2, <1>4, AppendKeeps
<1>6. IsGraph(g)
  BY <1>1, <1>2, <1>3, <1>5 DEF IsGraph, IsSeq
<1>7. Edges(g) = Edges(d)
  BY <1>2 DEF Edges
<1>8. nodeIds(g) = nodeIds(d) \cup {node.id} /\ node.id \notin nodeIds(d)
  BY <1>4, <1>5 DEF nodeIds
<1>9. NoDangling(g)
  BY <1>1, <1>7, <1>8 DEF NoDangling
<1>10. type # "start"
  BY PaletteAssumption
<1>11. \A types : \A x : x \in IdsOf(g.nodes, types)
                          => x \in IdsOf(d.nodes, types) \/ x = node.id
  BY <1>5 DEF IdsOf
<1>12. IdsOf(g.nodes, {"start"}) = IdsOf(d.nodes, {"start"})
  BY <1>3, <1>5, <1>10 DEF IdsOf
<1>13. StartKept(g)
  BY <1>7, <1>12 DEF HasShape, StartKept
<1>14. EndsKept(g)
  <2>. SUFFICES ASSUME NEW m, NEW n, <<m, n>> \in Edges(d), m \in IdsOf(g.nodes, Terminal)
                PROVE  FALSE
    BY <1>7 DEF EndsKept
  <2>1. m \in nodeIds(d)
    BY <1>1 DEF NoDangling
  <2>2. m \in IdsOf(d.nodes, Terminal)
    BY <1>8, <1>11, <2>1
  <2>. QED
    BY <2>2 DEF HasShape, EndsKept
<1>15. HasShape(g)
  BY <1>1, <1>2, <1>5, <1>6, <1>7, <1>9, <1>12, <1>13, <1>14 DEF HasShape
<1>. QED
  BY <1>15 DEF g

LEMMA AddEdgeKeepsShape ==
    ASSUME NEW d, HasShape(d), NEW s \in nodeIds(d), NEW t \in nodeIds(d), NEW tools,
           ~invalidConnectionMessage(d, s, t, tools, {})
    PROVE  HasShape(AddEdge(d, s, t))
<1>. DEFINE stays == {x \in ToSet(d.edges) : s = <<"start", "", 0>> => x.source # s}
            others == Only(d.edges, stays)
            edge == [id |-> uniqueEdgeId(s, t, d.edges), source |-> s, target |-> t,
                     condition |-> "always"]
            g == AddEdge(d, s, t)
            F == OtherEdges(d, {}) \cup {<<s, t>>}
<1>1. /\ IsGraph(d) /\ DOMAIN d = {"nodes", "edges"} /\ IsSeq(d.edges) /\ DistinctIds(d.edges)
      /\ \A e \in ToSet(d.edges) : DOMAIN e = {"id", "source", "target", "condition"}
  BY GraphParts DEF HasShape, IsGraph
<1>2. DOMAIN g = {"nodes", "edges"} /\ g.nodes = d.nodes /\ g.edges = Append(others, edge)
  BY <1>1 DEF AddEdge
<1>3. /\ edge.id = uniqueEdgeId(s, t, d.edges) /\ edge.source = s /\ edge.target = t
      /\ DOMAIN edge = {"id", "source", "target", "condition"}
  BY EdgeRecord
<1>4. IsSeq(others) /\ ToSet(others) = stays /\ DistinctIds(others)
  <2>1. /\ IsSeq(others) /\ ToSet(others) = ToSet(d.edges) \cap stays
        /\ DistinctIds(d.edges) => DistinctIds(others)
    <3>. HIDE DEF stays
    <3>. QED
      BY <1>1, OnlyKeeps
  <2>2. ToSet(d.edges) \cap stays = stays
    OBVIOUS
  <2>. QED
    BY <1>1, <2>1, <2>2
<1>5. stays \subseteq ToSet(d.edges)
  OBVIOUS
<1>. HIDE DEF edge, others, stays, g
<1>6. \A x \in ToSet(others) : x.id # edge.id
  BY <1>1, <1>3, <1>4, <1>5, FreshEdgeId
<1>7. IsSeq(g.edges) /\ ToSet(g.edges) = stays \cup {edge} /\ DistinctIds(g.edges)
  BY <1>2, <1>4, <1>6, AppendKeeps
<1>8. Edges(g) \subseteq F
  BY <1>3, <1>5, <1>7 DEF Edges, OtherEdges
<1>9. IsDrawable(d, F)
  BY ConnectionIsDrawable
<1>10. \A e \in ToSet(g.edges) : DOMAIN e = {"id", "source", "target", "condition"}
  BY <1>1, <1>3, <1>5, <1>7
<1>. HIDE DEF F
<1>11. HasShape(g)
  BY <1>2, <1>7, <1>8, <1>9, <1>10, Redrawn
<1>. QED
  BY <1>11 DEF g

(* One edge is another, under its id. *)
LEMMA ReplaceKeeps ==
    ASSUME NEW s, IsSeq(s), DistinctIds(s), NEW i \in DOMAIN s, NEW x, x.id = s[i].id
    PROVE  /\ IsSeq([s EXCEPT ![i] = x]) /\ DistinctIds([s EXCEPT ![i] = x])
           /\ \A y \in ToSet([s EXCEPT ![i] = x]) :
                y = x \/ (y \in ToSet(s) /\ y.id # s[i].id)
<1>. DEFINE q == [s EXCEPT ![i] = x]
<1>1. DOMAIN s = 1 .. Len(s) /\ Len(s) \in Nat
  BY DEF IsSeq
<1>2. DOMAIN q = DOMAIN s /\ q[i] = x /\ \A j \in DOMAIN s : j # i => q[j] = s[j]
  OBVIOUS
<1>. HIDE DEF q
<1>3. \A j \in DOMAIN s : q[j].id = s[j].id
  BY <1>2
<1>4. DistinctIds(q)
  BY <1>2, <1>3 DEF DistinctIds
<1>5. q \in Seq(ToSet(q))
  <2>1. \A j \in 1 .. Len(s) : q[j] \in ToSet(q)
    BY <1>1, <1>2 DEF ToSet
  <2>2. q \in [1 .. Len(s) -> ToSet(q)]
    <3>1. q = [j \in 1 .. Len(s) |-> q[j]]
      BY <1>1 DEF q
    <3>. QED
      BY <2>1, <3>1
  <2>. QED
    BY <1>1, <2>2
<1>6. ASSUME NEW y \in ToSet(q) PROVE y = x \/ (y \in ToSet(s) /\ y.id # s[i].id)
  <2>1. PICK j \in DOMAIN s : y = q[j]
    BY <1>2 DEF ToSet
  <2>. QED
    BY <1>2, <2>1 DEF DistinctIds, ToSet
<1>. QED
  BY <1>4, <1>5, <1>6 DEF IsSeq, q

LEMMA ReconnectKeepsShape ==
    ASSUME NEW d, HasShape(d), NEW s \in nodeIds(d), NEW t \in nodeIds(d), NEW tools,
           NEW i \in DOMAIN d.edges,
           ~invalidConnectionMessage(d, s, t, tools, {d.edges[i].id})
    PROVE  HasShape([d EXCEPT !.edges[i].source = s, !.edges[i].target = t])
<1>. DEFINE old == d.edges[i]
            edge == [old EXCEPT !.source = s, !.target = t]
            g == [d EXCEPT !.edges[i].source = s, !.edges[i].target = t]
            F == OtherEdges(d, {old.id}) \cup {<<s, t>>}
<1>1. /\ IsGraph(d) /\ DOMAIN d = {"nodes", "edges"} /\ IsSeq(d.edges) /\ DistinctIds(d.edges)
      /\ \A e \in ToSet(d.edges) : DOMAIN e = {"id", "source", "target", "condition"}
  BY GraphParts DEF HasShape, IsGraph
<1>2. DOMAIN old = {"id", "source", "target", "condition"}
  BY <1>1 DEF ToSet
<1>3. DOMAIN g = {"nodes", "edges"} /\ g.nodes = d.nodes /\ g.edges = [d.edges EXCEPT ![i] = edge]
  BY <1>1
<1>4. /\ edge.id = old.id /\ edge.source = s /\ edge.target = t
      /\ DOMAIN edge = {"id", "source", "target", "condition"}
  BY <1>2
<1>. HIDE DEF edge, g
<1>5. /\ IsSeq(g.edges) /\ DistinctIds(g.edges)
      /\ \A y \in ToSet(g.edges) : y = edge \/ (y \in ToSet(d.edges) /\ y.id # old.id)
  BY <1>1, <1>3, <1>4, ReplaceKeeps
<1>6. Edges(g) \subseteq F
  BY <1>4, <1>5 DEF Edges, OtherEdges
<1>7. IsDrawable(d, F)
  BY ConnectionIsDrawable
<1>8. \A e \in ToSet(g.edges) : DOMAIN e = {"id", "source", "target", "condition"}
  BY <1>1, <1>4, <1>5
<1>. HIDE DEF F
<1>9. HasShape(g)
  BY <1>3, <1>5, <1>6, <1>7, <1>8, Redrawn
<1>. QED
  BY <1>9 DEF g

LEMMA ConditionKeepsShape ==
    ASSUME NEW d, HasShape(d), NEW i \in DOMAIN d.edges, NEW condition
    PROVE  HasShape([d EXCEPT !.edges[i].condition = condition])
<1>. DEFINE old == d.edges[i]
            edge == [old EXCEPT !.condition = condition]
            g == [d EXCEPT !.edges[i].condition = condition]
<1>1. /\ IsGraph(d) /\ DOMAIN d = {"nodes", "edges"} /\ IsSeq(d.edges) /\ DistinctIds(d.edges)
      /\ \A e \in ToSet(d.edges) : DOMAIN e = {"id", "source", "target", "condition"}
  BY GraphParts DEF HasShape, IsGraph
<1>2. DOMAIN old = {"id", "source", "target", "condition"} /\ old \in ToSet(d.edges)
  BY <1>1 DEF ToSet
<1>3. DOMAIN g = {"nodes", "edges"} /\ g.nodes = d.nodes /\ g.edges = [d.edges EXCEPT ![i] = edge]
  BY <1>1
<1>4. /\ edge.id = old.id /\ edge.source = old.source /\ edge.target = old.target
      /\ DOMAIN edge = {"id", "source", "target", "condition"}
  BY <1>2
<1>. HIDE DEF edge, g
<1>5. /\ IsSeq(g.edges) /\ DistinctIds(g.edges)
      /\ \A y \in ToSet(g.edges) : y = edge \/ y \in ToSet(d.edges)
  BY <1>1, <1>3, <1>4, ReplaceKeeps
<1>6. Edges(g) \subseteq Edges(d)
  BY <1>2, <1>4, <1>5 DEF Edges
<1>7. \A e \in ToSet(g.edges) : DOMAIN e = {"id", "source", "target", "condition"}
  BY <1>1, <1>4, <1>5
<1>8. HasShape(g)
  BY <1>3, <1>5, <1>6, <1>7, ShapeIsDrawable, Redrawn
<1>. QED
  BY <1>8 DEF g

LEMMA RemoveEdgesKeepsShape ==
    ASSUME NEW d, HasShape(d), NEW ids
    PROVE  HasShape(RemoveEdges(d, ids))
<1>. DEFINE stays == {x \in ToSet(d.edges) : x.id \notin ids}
            g == RemoveEdges(d, ids)
<1>1. /\ IsGraph(d) /\ DOMAIN d = {"nodes", "edges"} /\ IsSeq(d.edges) /\ DistinctIds(d.edges)
      /\ \A e \in ToSet(d.edges) : DOMAIN e = {"id", "source", "target", "condition"}
  BY GraphParts DEF HasShape, IsGraph
<1>2. DOMAIN g = {"nodes", "edges"} /\ g.nodes = d.nodes /\ g.edges = Only(d.edges, stays)
  BY <1>1 DEF RemoveEdges
<1>. HIDE DEF g
<1>3. IsSeq(g.edges) /\ DistinctIds(g.edges) /\ ToSet(g.edges) \subseteq ToSet(d.edges)
  BY <1>1, <1>2, OnlyKeeps
<1>4. Edges(g) \subseteq Edges(d)
  BY <1>3 DEF Edges
<1>5. HasShape(g)
  BY <1>1, <1>2, <1>3, <1>4, ShapeIsDrawable, Redrawn
<1>. QED
  BY <1>5 DEF g

LEMMA RemoveNodesKeepsShape ==
    ASSUME NEW d, HasShape(d), NEW ids, ids \cap IdsOf(d.nodes, {"start"}) = {}
    PROVE  HasShape(RemoveNodes(d, ids))
<1>. DEFINE nodes == {n \in ToSet(d.nodes) : n.id \notin ids}
            edges == {x \in ToSet(d.edges) : {x.source, x.target} \cap ids = {}}
            g == RemoveNodes(d, ids)
<1>1. /\ IsGraph(d) /\ IsSeq(d.nodes) /\ DistinctIds(d.nodes)
      /\ IsSeq(d.edges) /\ DistinctIds(d.edges) /\ NoDangling(d)
  BY GraphParts DEF HasShape
<1>2. /\ DOMAIN g = {"nodes", "edges"} /\ g.nodes = Only(d.nodes, nodes)
      /\ g.edges = Only(d.edges, edges)
  BY DEF RemoveNodes
<1>. HIDE DEF g
<1>3. /\ IsSeq(g.nodes) /\ DistinctIds(g.nodes) /\ ToSet(g.nodes) = nodes
      /\ IsSeq(g.edges) /\ DistinctIds(g.edges) /\ ToSet(g.edges) = edges
  BY <1>1, <1>2, OnlyKeeps
<1>4. IsGraph(g)
  BY <1>1, <1>2, <1>3 DEF IsGraph, IsSeq
<1>5. Edges(g) \subseteq Edges(d) /\ \A m, n : <<m, n>> \in Edges(g) => m \notin ids /\ n \notin ids
  BY <1>3 DEF Edges
<1>6. \A types : IdsOf(g.nodes, types) = IdsOf(d.nodes, types) \ ids
  BY <1>3 DEF IdsOf
<1>7. nodeIds(g) = nodeIds(d) \ ids
  BY <1>3 DEF nodeIds
<1>8. NoDangling(g)
  BY <1>1, <1>5, <1>7 DEF NoDangling
<1>9. StartKept(g) /\ EndsKept(g)
  BY <1>5, <1>6 DEF HasShape, StartKept, EndsKept
<1>10. Acyclic(Edges(g))
  BY <1>5, SmallerIsAcyclic DEF HasShape
<1>11. IdsOf(g.nodes, {"start"}) = IdsOf(d.nodes, {"start"})
  BY <1>6
<1>12. HasShape(g)
  BY <1>3, <1>4, <1>8, <1>9, <1>10, <1>11 DEF HasShape
<1>. QED
  BY <1>12 DEF g

LEMMA AcceptedHasShape ==
    ASSUME NEW d, IsGraph(d), Accepted(d)
    PROVE  HasShape(d)
BY ShapeIsValidated DEF Accepted

-----------------------------------------------------------------------------
(* The stored graph and its versions. *)

(* What the argument needs of the types; graphs and tools may be anything.  *)
AgentTyped ==
    /\ {"tools", "definition", "version", "deleted", "vetted"} \subseteq DOMAIN agent
    /\ agent.version \in Nat \cup {Null}
    /\ raced \in BOOLEAN

SavingTyped ==
    /\ DOMAIN saving = Savers
    /\ \A s \in Savers :
         /\ {"step", "definition", "tools", "version"} \subseteq DOMAIN saving[s]
         /\ saving[s].version \in Nat \cup {Null}

(* A save that goes on was found acceptable with the tools it has seen.     *)
CheckedOK ==
    \A s \in Savers : saving[s].step \in {"checked", "read"}
      => /\ Accepted(saving[s].definition)
         /\ workflowToolIssues(saving[s].definition, saving[s].tools) = {}

(* Nothing was named by a version that is still to come.                    *)
NamesOK ==
    ~raced => \A x \in names : agent.version \in Nat /\ x[1] \in Nat /\ x[1] <= agent.version

Inv == AgentTyped /\ SavingTyped /\ CheckedOK /\ StoredIsAccepted
       /\ NamesOK /\ VersionNamesDefinition

-----------------------------------------------------------------------------
(* The steps. *)

(* A save begins, goes on or ends with the graph and the tools it checked.  *)
SaveMoves(s) ==
    /\ DOMAIN saving' = Savers
    /\ \A t \in Savers \ {s} : saving'[t] = saving[t]
    /\ {"step", "definition", "tools", "version"} \subseteq DOMAIN saving'[s]
    /\ saving'[s].version \in Nat \cup {Null}
    /\ saving'[s].step \in {"checked", "read"}
         => /\ Accepted(saving'[s].definition)
            /\ workflowToolIssues(saving'[s].definition, saving'[s].tools) = {}

LEMMA SaveStep ==
    ASSUME Inv, NEW s \in Savers, SaveMoves(s)
    PROVE  SavingTyped' /\ CheckedOK'
BY DEF Inv, SavingTyped, CheckedOK, SaveMoves

LEMMA RowsStay ==
    ASSUME Inv, UNCHANGED rows, SavingTyped', CheckedOK'
    PROVE  Inv'
<1>1. agent' = agent /\ names' = names /\ raced' = raced
  BY DEF rows
<1>2. AgentTyped' /\ StoredIsAccepted' /\ NamesOK' /\ VersionNamesDefinition'
  BY <1>1 DEF Inv, AgentTyped, StoredIsAccepted, NamesOK, VersionNamesDefinition
<1>. QED
  BY <1>2 DEF Inv

LEMMA SavingStays ==
    ASSUME Inv, saving' = saving
    PROVE  SavingTyped' /\ CheckedOK'
BY DEF Inv, SavingTyped, CheckedOK

LEMMA NotSavingMoves ==
    /\ NotSaving.step = "none" /\ NotSaving.version = Null
    /\ {"step", "definition", "tools", "version"} \subseteq DOMAIN NotSaving
BY DEF NotSaving

(* What the users of pages do without saving.                               *)
LEMMA UnsavedStep ==
    ASSUME NEW e \in Editors,
           \/ addWorkflowNode(e) \/ connectNodes(e) \/ reconnectWorkflowEdge(e)
           \/ onNodesDelete(e) \/ onEdgesDelete(e)
           \/ updateSelectedEdgeCondition(e) \/ resetToTemplate(e) \/ Touch(e)
           \/ LoadWorkflow(e) \/ LoadAgents(e) \/ OpenEditor(e)
           \/ validateMutation(e) \/ ShowValidation(e) \/ ValidationFails(e)
    PROVE  UNCHANGED <<rows, saving>>
<1>1. CASE \/ addWorkflowNode(e) \/ connectNodes(e) \/ reconnectWorkflowEdge(e)
           \/ onNodesDelete(e) \/ onEdgesDelete(e)
           \/ updateSelectedEdgeCondition(e) \/ resetToTemplate(e)
  BY <1>1 DEF addWorkflowNode, connectNodes, reconnectWorkflowEdge, onNodesDelete,
     onEdgesDelete, updateSelectedEdgeCondition, resetToTemplate, updateDefinition
<1>2. CASE \/ Touch(e) \/ LoadWorkflow(e) \/ LoadAgents(e) \/ OpenEditor(e)
           \/ validateMutation(e) \/ ShowValidation(e) \/ ValidationFails(e)
  BY <1>2 DEF Touch, LoadWorkflow, LoadAgents, OpenEditor, validateMutation,
     ShowValidation, ValidationFails
<1>. QED
  BY <1>1, <1>2

LEMMA PageStep ==
    ASSUME Inv, NEW e \in Editors,
           \/ addWorkflowNode(e) \/ connectNodes(e) \/ reconnectWorkflowEdge(e)
           \/ onNodesDelete(e) \/ onEdgesDelete(e)
           \/ updateSelectedEdgeCondition(e) \/ resetToTemplate(e) \/ Touch(e)
           \/ LoadWorkflow(e) \/ LoadAgents(e) \/ OpenEditor(e)
           \/ validateMutation(e) \/ ShowValidation(e) \/ ValidationFails(e)
    PROVE  Inv'
<1>1. UNCHANGED <<rows, saving>>
  BY UnsavedStep
<1>. QED
  BY <1>1, SavingStays, RowsStay

(* The check of a save, whoever saves and whatever the graph.               *)
LEMMA CheckStep ==
    ASSUME Inv, NEW s \in Savers, NEW d, CheckSave(s, d)
    PROVE  Inv'
<1>. DEFINE save == [NotSaving EXCEPT !.step = "checked", !.definition = d, !.tools = agent.tools]
<1>1. /\ Accepted(d) /\ workflowToolIssues(d, agent.tools) = {}
      /\ saving' = [saving EXCEPT ![s] = save] /\ UNCHANGED rows
  BY DEF CheckSave
<1>2. /\ save.definition = d /\ save.tools = agent.tools
      /\ {"step", "definition", "tools", "version"} \subseteq DOMAIN save
  BY DEF NotSaving
<1>4. save.version = Null
  BY DEF NotSaving
<1>. HIDE DEF save
<1>3. SaveMoves(s)
  BY <1>1, <1>2, <1>4 DEF Inv, SavingTyped, SaveMoves
<1>. QED
  BY <1>1, <1>3, SaveStep, RowsStay

(* A save that goes on without a change of the row.                         *)
LEMMA SaveOnStep ==
    ASSUME Inv, NEW s \in Savers, ReadVersion(s) \/ ShowSaved(s) \/ EndSave(s) \/ SaveFails(s)
    PROVE  Inv'
<1>1. UNCHANGED rows
  BY DEF ReadVersion, ShowSaved, EndSave, SaveFails
<1>2. CASE ReadVersion(s)
  <2>. DEFINE save == [saving[s] EXCEPT !.step = "read", !.version = agent.version]
  <2>1. saving' = [saving EXCEPT ![s] = save] /\ saving[s].step = "checked"
    BY <1>2 DEF ReadVersion
  <2>2. /\ save.definition = saving[s].definition /\ save.tools = saving[s].tools
        /\ save.version = agent.version
        /\ {"step", "definition", "tools", "version"} \subseteq DOMAIN save
    BY DEF Inv, SavingTyped
  <2>. HIDE DEF save
  <2>3. SaveMoves(s)
    BY <2>1, <2>2 DEF Inv, AgentTyped, SavingTyped, CheckedOK, SaveMoves
  <2>. QED
    BY <1>1, <2>3, SaveStep, RowsStay
<1>3. CASE ShowSaved(s) \/ EndSave(s) \/ SaveFails(s)
  <2>1. PICK save :
           /\ saving' = [saving EXCEPT ![s] = save]
           /\ save = NotSaving \/ save = [saving[s] EXCEPT !.step = "refetching"]
    BY <1>3 DEF ShowSaved, EndSave, SaveFails
  <2>2. /\ save.step \notin {"checked", "read"} /\ save.version \in Nat \cup {Null}
        /\ {"step", "definition", "tools", "version"} \subseteq DOMAIN save
    BY <2>1, NotSavingMoves DEF Inv, SavingTyped
  <2>3. SaveMoves(s)
    BY <2>1, <2>2 DEF Inv, SavingTyped, SaveMoves
  <2>. QED
    BY <1>1, <2>3, SaveStep, RowsStay
<1>. QED
  BY <1>2, <1>3

(* The row is written: the version is new unless another save was quicker.  *)
LEMMA WriteStep ==
    ASSUME Inv, NEW s \in Savers, WriteWorkflow(s)
    PROVE  Inv'
<1>. DEFINE version == NextVersion(saving[s].version)
            graph == saving[s].definition
            row == Row(agent.tools, graph, version, saving[s].tools)
<1>1. /\ saving[s].step = "read" /\ agent' = row
      /\ names' = names \cup {<<version, graph>>}
      /\ raced' = (raced \/ agent.version # saving[s].version)
  BY DEF WriteWorkflow
<1>2. /\ row.definition = graph /\ row.version = version /\ row.vetted = saving[s].tools
      /\ {"tools", "definition", "version", "deleted", "vetted"} \subseteq DOMAIN row
  BY DEF Row
<1>. HIDE DEF row
<1>3. PICK save :
         /\ saving' = [saving EXCEPT ![s] = save]
         /\ \/ save = NotSaving
            \/ save = [saving[s] EXCEPT !.step = "answered", !.tools = Null, !.version = Null]
  BY DEF WriteWorkflow
<1>4. /\ save.step \notin {"checked", "read"} /\ save.version \in Nat \cup {Null}
      /\ {"step", "definition", "tools", "version"} \subseteq DOMAIN save
  BY <1>3, NotSavingMoves DEF Inv, SavingTyped
<1>5. SavingTyped' /\ CheckedOK'
  <2>1. SaveMoves(s)
    BY <1>3, <1>4 DEF Inv, SavingTyped, SaveMoves
  <2>. QED
    BY <2>1, SaveStep
<1>6. StoredIsAccepted'
  BY <1>1, <1>2 DEF Inv, CheckedOK, StoredIsAccepted
<1>7. version \in Nat /\ (~raced' => \A x \in names : x[1] \in Nat /\ x[1] < version)
  <2>1. saving[s].version \in Nat \cup {Null} /\ raced \in BOOLEAN
    BY DEF Inv, SavingTyped, AgentTyped
  <2>2. version \in Nat /\ (saving[s].version \in Nat => version = saving[s].version + 1)
    BY <2>1, NullAssumption DEF NextVersion
  <2>. HIDE DEF version
  <2>3. SUFFICES ASSUME ~raced', NEW x \in names
                 PROVE  x[1] \in Nat /\ x[1] < version
    BY <2>2
  <2>4. ~raced /\ agent.version = saving[s].version
    BY <1>1, <2>1, <2>3
  <2>5. saving[s].version \in Nat /\ x[1] \in Nat /\ x[1] <= saving[s].version
    BY <2>4 DEF Inv, NamesOK
  <2>. QED
    BY <2>2, <2>5
<1>8. AgentTyped'
  BY <1>1, <1>2, <1>7 DEF Inv, AgentTyped
<1>. HIDE DEF version, graph
<1>9. NamesOK'
  BY <1>1, <1>2, <1>7 DEF NamesOK
<1>10. VersionNamesDefinition'
  <2>. SUFFICES ASSUME ~raced', NEW x \in names', NEW y \in names', x[1] = y[1]
                PROVE  x[2] = y[2]
    BY DEF VersionNamesDefinition
  <2>1. ~raced /\ \A z \in names : z[1] # version
    <3>1. raced \in BOOLEAN /\ ~raced'
      BY DEF Inv, AgentTyped
    <3>. QED
      BY <1>1, <1>7, <3>1
  <2>. QED
    BY <1>1, <2>1 DEF Inv, VersionNamesDefinition
<1>. QED
  BY <1>5, <1>6, <1>8, <1>9, <1>10 DEF Inv

LEMMA AgentStep ==
    ASSUME Inv, UpdateAgent \/ DeleteAgent \/ InstallTemplate \/ ResetTemplate
    PROVE  Inv'
<1>1. SavingTyped' /\ CheckedOK'
  BY SavingStays DEF UpdateAgent, DeleteAgent, InstallTemplate, ResetTemplate
<1>2. CASE UpdateAgent \/ DeleteAgent
  <2>1. /\ UNCHANGED <<names, raced>>
        /\ \/ \E tools : agent' = [agent EXCEPT !.tools = tools]
           \/ agent' = [agent EXCEPT !.deleted = TRUE]
    BY <1>2 DEF UpdateAgent, DeleteAgent
  <2>2. /\ agent'.definition = agent.definition /\ agent'.version = agent.version
        /\ agent'.vetted = agent.vetted
        /\ {"tools", "definition", "version", "deleted", "vetted"} \subseteq DOMAIN agent'
    BY <2>1 DEF Inv, AgentTyped
  <2>3. AgentTyped' /\ StoredIsAccepted' /\ NamesOK' /\ VersionNamesDefinition'
    BY <2>1, <2>2 DEF Inv, AgentTyped, StoredIsAccepted, NamesOK, VersionNamesDefinition
  <2>. QED
    BY <1>1, <2>3 DEF Inv
<1>3. CASE InstallTemplate \/ ResetTemplate
  <2>1. /\ agent' = templateData /\ names' = {}
        /\ raced' = (raced \/ \E s \in Savers : saving[s].step = "read")
    BY <1>3 DEF InstallTemplate, ResetTemplate
  <2>2. /\ templateData.definition = Null /\ templateData.version = Null
        /\ {"tools", "definition", "version", "deleted", "vetted"} \subseteq DOMAIN templateData
    BY DEF templateData, Row
  <2>3. AgentTyped' /\ StoredIsAccepted' /\ NamesOK' /\ VersionNamesDefinition'
    BY <2>1, <2>2 DEF Inv, AgentTyped, StoredIsAccepted, NamesOK, VersionNamesDefinition
  <2>. QED
    BY <1>1, <2>3 DEF Inv
<1>. QED
  BY <1>2, <1>3

LEMMA InvInit == Init => Inv
<1>. SUFFICES ASSUME Init
              PROVE  Inv
  OBVIOUS
<1>1. /\ agent.definition = Null /\ agent.version = Null
      /\ {"tools", "definition", "version", "deleted", "vetted"} \subseteq DOMAIN agent
  BY DEF Init, templateData, Row
<1>2. AgentTyped /\ StoredIsAccepted /\ NamesOK /\ VersionNamesDefinition
  BY <1>1 DEF Init, AgentTyped, StoredIsAccepted, NamesOK, VersionNamesDefinition
<1>3. SavingTyped /\ CheckedOK
  BY NotSavingMoves DEF Init, SavingTyped, CheckedOK
<1>. QED
  BY <1>2, <1>3 DEF Inv

LEMMA InvNext == Inv /\ [Next]_vars => Inv'
<1>. SUFFICES ASSUME Inv, [Next]_vars
              PROVE  Inv'
  OBVIOUS
<1>1. CASE UNCHANGED vars
  BY <1>1, SavingStays, RowsStay DEF vars, rows
<1>2. ASSUME NEW e \in Editors, saveMutation(e)
      PROVE  Inv'
  BY <1>2, CheckStep DEF saveMutation, Savers
<1>3. CASE ClientSaves
  BY <1>3, CheckStep DEF ClientSaves, Savers
<1>4. ASSUME NEW e \in Editors,
             \/ addWorkflowNode(e) \/ connectNodes(e) \/ reconnectWorkflowEdge(e)
             \/ onNodesDelete(e) \/ onEdgesDelete(e)
             \/ updateSelectedEdgeCondition(e) \/ resetToTemplate(e) \/ Touch(e)
             \/ LoadWorkflow(e) \/ LoadAgents(e) \/ OpenEditor(e)
             \/ validateMutation(e) \/ ShowValidation(e) \/ ValidationFails(e)
      PROVE  Inv'
  BY <1>4, PageStep
<1>5. ASSUME NEW s \in Savers,
             ReadVersion(s) \/ WriteWorkflow(s) \/ ShowSaved(s) \/ EndSave(s) \/ SaveFails(s)
      PROVE  Inv'
  BY <1>5, WriteStep, SaveOnStep
<1>6. CASE UpdateAgent \/ DeleteAgent \/ InstallTemplate \/ ResetTemplate
  BY <1>6, AgentStep
<1>. QED
  BY <1>1, <1>2, <1>3, <1>4, <1>5, <1>6 DEF Next

(* The inductive invariant: a save carries what its check has accepted, and *)
(* the versions named lie behind the row's.                                 *)
THEOREM Invariance == Spec => []Inv
BY InvInit, InvNext, PTL DEF Spec

(* The stored graph is one the validation accepts, with the tools that were *)
(* enabled when its save was checked: for any graphs, any number of pages   *)
(* and of requests between the check and the write.                         *)
THEOREM StoredGraphsAreAccepted == Spec => []StoredIsAccepted
<1>1. Inv => StoredIsAccepted
  BY DEF Inv
<1>. QED
  BY <1>1, Invariance, PTL

(* Since the last reset one version names one graph, unless one save wrote  *)
(* over a version it had not read, for any number of saves under way.       *)
THEOREM VersionsNameGraphs == Spec => []VersionNamesDefinition
<1>1. Inv => VersionNamesDefinition
  BY DEF Inv
<1>. QED
  BY <1>1, Invariance, PTL

-----------------------------------------------------------------------------
(* What pages show, rows hold and saves carry keeps its shape.              *)

GoodPage(page) ==
    /\ {"open", "definition", "data", "agent", "valid"} \subseteq DOMAIN page
    /\ HasShape(page.definition)
    /\ page.data # Null /\ page.data.definition # Null => HasShape(page.data.definition)

PagesOK == DOMAIN editor = Editors /\ \A e \in Editors : GoodPage(editor[e])

RowOK == agent.definition # Null => HasShape(agent.definition)

SavesOK == \A s \in Savers : saving[s].step # "none" => HasShape(saving[s].definition)

ShapeInv == Inv /\ PagesOK /\ RowOK /\ SavesOK

LEMMA PageChanges ==
    ASSUME PagesOK, NEW e \in Editors, NEW page, GoodPage(page),
           editor' = [editor EXCEPT ![e] = page]
    PROVE  PagesOK'
BY DEF PagesOK

LEMMA PagesStay ==
    ASSUME PagesOK, editor' = editor
    PROVE  PagesOK'
BY DEF PagesOK

LEMMA TemplateHasShape == HasShape(Template)
BY GraphsAssumption, AcceptedHasShape

LEMMA MountedIsGood == GoodPage(Mounted)
<1>1. Mounted.definition = Template /\ Mounted.data = Null
      /\ {"open", "definition", "data", "agent", "valid"} \subseteq DOMAIN Mounted
  BY DEF Mounted
<1>. QED
  BY <1>1, TemplateHasShape DEF GoodPage

(* An edit of the graph. *)
LEMMA EditKeeps ==
    ASSUME ShapeInv, NEW e \in Editors, NEW d, HasShape(d), updateDefinition(e, d)
    PROVE  PagesOK'
<1>. DEFINE page == [editor[e] EXCEPT !.definition = d, !.valid = FALSE]
<1>1. GoodPage(editor[e]) /\ DOMAIN editor = Editors
  BY DEF ShapeInv, PagesOK
<1>2. editor' = [editor EXCEPT ![e] = page]
  BY <1>1 DEF updateDefinition
<1>3. /\ page.definition = d /\ page.data = editor[e].data
      /\ {"open", "definition", "data", "agent", "valid"} \subseteq DOMAIN page
  BY <1>1 DEF GoodPage
<1>. HIDE DEF page
<1>4. GoodPage(page)
  BY <1>1, <1>3 DEF GoodPage
<1>. QED
  BY <1>2, <1>4, PageChanges DEF ShapeInv

LEMMA EditStep ==
    ASSUME ShapeInv, NEW e \in Editors,
           \/ addWorkflowNode(e) \/ connectNodes(e) \/ reconnectWorkflowEdge(e)
           \/ onNodesDelete(e) \/ onEdgesDelete(e)
           \/ updateSelectedEdgeCondition(e) \/ resetToTemplate(e)
    PROVE  PagesOK'
<1>. DEFINE d == editor[e].definition
<1>1. HasShape(d)
  BY DEF ShapeInv, PagesOK, GoodPage
<1>2. CASE addWorkflowNode(e)
  <2>1. PICK type \in NodeTypes : updateDefinition(e, AddNode(d, type))
    BY <1>2 DEF addWorkflowNode
  <2>. QED
    BY <1>1, <2>1, AddNodeKeepsShape, EditKeeps
<1>3. CASE connectNodes(e)
  <2>1. PICK s \in nodeIds(d), t \in nodeIds(d) :
           /\ ~invalidConnectionMessage(d, s, t, editor[e].agent.tools, {})
           /\ updateDefinition(e, AddEdge(d, s, t))
    BY <1>3 DEF connectNodes
  <2>. QED
    BY <1>1, <2>1, AddEdgeKeepsShape, EditKeeps
<1>4. CASE reconnectWorkflowEdge(e)
  <2>1. PICK i \in DOMAIN d.edges, s \in nodeIds(d), t \in nodeIds(d) :
           /\ ~invalidConnectionMessage(d, s, t, editor[e].agent.tools, {d.edges[i].id})
           /\ updateDefinition(e, [d EXCEPT !.edges[i].source = s, !.edges[i].target = t])
    BY <1>4 DEF reconnectWorkflowEdge
  <2>2. HasShape([d EXCEPT !.edges[i].source = s, !.edges[i].target = t])
    BY <1>1, <2>1, ReconnectKeepsShape
  <2>. QED
    BY <2>1, <2>2, EditKeeps
<1>5. CASE onNodesDelete(e)
  <2>1. PICK ids \in SUBSET (nodeIds(d) \ IdsOf(d.nodes, {"start"})) :
           updateDefinition(e, RemoveNodes(d, ids))
    BY <1>5 DEF onNodesDelete
  <2>2. HasShape(RemoveNodes(d, ids))
    BY <1>1, <2>1, RemoveNodesKeepsShape
  <2>. QED
    BY <2>1, <2>2, EditKeeps
<1>6. CASE onEdgesDelete(e)
  <2>1. PICK ids : updateDefinition(e, RemoveEdges(d, ids))
    BY <1>6 DEF onEdgesDelete
  <2>. QED
    BY <1>1, <2>1, RemoveEdgesKeepsShape, EditKeeps
<1>7. CASE updateSelectedEdgeCondition(e)
  <2>1. PICK i \in DOMAIN d.edges, condition \in Presets :
           updateDefinition(e, [d EXCEPT !.edges[i].condition = condition])
    BY <1>7 DEF updateSelectedEdgeCondition
  <2>2. HasShape([d EXCEPT !.edges[i].condition = condition])
    BY <1>1, <2>1, ConditionKeepsShape
  <2>. QED
    BY <2>1, <2>2, EditKeeps
<1>8. CASE resetToTemplate(e)
  BY <1>8, TemplateHasShape, EditKeeps DEF resetToTemplate
<1>. QED
  BY <1>2, <1>3, <1>4, <1>5, <1>6, <1>7, <1>8

(* What else is shown: an answer of a query takes what was drawn with it.   *)
LEMMA ShownIsGood ==
    ASSUME NEW page, GoodPage(page)
    PROVE  GoodPage(Shown(page))
<1>1. CASE page.data = Null
  BY <1>1 DEF Shown
<1>2. CASE page.data # Null
  <2>. DEFINE d == IF page.data.definition = Null THEN Template ELSE page.data.definition
              new == [page EXCEPT !.valid = FALSE, !.definition = d]
  <2>1. Shown(page) = new
    BY <1>2 DEF Shown
  <2>2. HasShape(d)
    BY <1>2, TemplateHasShape DEF GoodPage
  <2>. HIDE DEF d
  <2>3. /\ new.definition = d /\ new.data = page.data
        /\ {"open", "definition", "data", "agent", "valid"} \subseteq DOMAIN new
    BY DEF GoodPage
  <2>. HIDE DEF new
  <2>. QED
    BY <2>1, <2>2, <2>3 DEF GoodPage
<1>. QED
  BY <1>1, <1>2

LEMMA ShowStep ==
    ASSUME ShapeInv, NEW e \in Editors,
           \/ Touch(e) \/ LoadWorkflow(e) \/ LoadAgents(e) \/ OpenEditor(e)
           \/ validateMutation(e) \/ ShowValidation(e) \/ ValidationFails(e)
    PROVE  PagesOK'
<1>1. PagesOK /\ GoodPage(editor[e]) /\ DOMAIN editor = Editors
  BY DEF ShapeInv, PagesOK
<1>2. ASSUME NEW v, editor' = [editor EXCEPT ![e].valid = v] PROVE PagesOK'
  <2>. DEFINE page == [editor[e] EXCEPT !.valid = v]
  <2>1. /\ page.definition = editor[e].definition /\ page.data = editor[e].data
        /\ {"open", "definition", "data", "agent", "valid"} \subseteq DOMAIN page
    BY <1>1 DEF GoodPage
  <2>2. editor' = [editor EXCEPT ![e] = page]
    BY <1>1, <1>2
  <2>. HIDE DEF page
  <2>3. GoodPage(page)
    BY <1>1, <2>1 DEF GoodPage
  <2>. QED
    BY <1>1, <2>2, <2>3, PageChanges
<1>3. CASE Touch(e)
  BY <1>2, <1>3 DEF Touch
<1>4. CASE LoadWorkflow(e)
  <2>. DEFINE answer == [definition |-> agent.definition, version |-> agent.version]
              page == [editor[e] EXCEPT !.data = answer]
  <2>1. editor' = [editor EXCEPT ![e] = Shown(page)]
    BY <1>1, <1>4 DEF LoadWorkflow
  <2>2. /\ page.definition = editor[e].definition /\ page.data = answer
        /\ {"open", "definition", "data", "agent", "valid"} \subseteq DOMAIN page
    BY <1>1 DEF GoodPage
  <2>3. answer.definition = agent.definition
    OBVIOUS
  <2>. HIDE DEF page, answer
  <2>4. GoodPage(page)
    BY <1>1, <2>2, <2>3 DEF GoodPage, ShapeInv, RowOK
  <2>. QED
    BY <1>1, <2>1, <2>4, ShownIsGood, PageChanges
<1>5. CASE LoadAgents(e)
  <2>. DEFINE answer == [tools |-> agent.tools, version |-> agent.version]
              page == [editor[e] EXCEPT !.agent = answer]
              shut == [editor[e] EXCEPT !.open = FALSE]
  <2>1. \/ editor' = [editor EXCEPT ![e] = Shown(page)]
        \/ editor' = [editor EXCEPT ![e] = shut]
    BY <1>1, <1>5 DEF LoadAgents
  <2>2. /\ page.definition = editor[e].definition /\ page.data = editor[e].data
        /\ {"open", "definition", "data", "agent", "valid"} \subseteq DOMAIN page
    BY <1>1 DEF GoodPage
  <2>3. /\ shut.definition = editor[e].definition /\ shut.data = editor[e].data
        /\ {"open", "definition", "data", "agent", "valid"} \subseteq DOMAIN shut
    BY <1>1 DEF GoodPage
  <2>. HIDE DEF page, shut
  <2>4. GoodPage(page) /\ GoodPage(shut)
    BY <1>1, <2>2, <2>3 DEF GoodPage
  <2>5. GoodPage(Shown(page))
    BY <2>4, ShownIsGood
  <2>. QED
    BY <1>1, <2>1, <2>4, <2>5, PageChanges
<1>6. CASE OpenEditor(e)
  BY <1>1, <1>6, MountedIsGood, PageChanges DEF OpenEditor
<1>7. CASE validateMutation(e) \/ ValidationFails(e)
  BY <1>1, <1>7, PagesStay DEF validateMutation, ValidationFails
<1>8. CASE ShowValidation(e)
  <2>1. editor' = editor \/ \E v : editor' = [editor EXCEPT ![e].valid = v]
    BY <1>8 DEF ShowValidation
  <2>. QED
    BY <1>1, <1>2, <2>1, PagesStay
<1>. QED
  BY <1>3, <1>4, <1>5, <1>6, <1>7, <1>8

LEMMA PageShape ==
    ASSUME ShapeInv, NEW e \in Editors,
           \/ addWorkflowNode(e) \/ connectNodes(e) \/ reconnectWorkflowEdge(e)
           \/ onNodesDelete(e) \/ onEdgesDelete(e)
           \/ updateSelectedEdgeCondition(e) \/ resetToTemplate(e) \/ Touch(e)
           \/ LoadWorkflow(e) \/ LoadAgents(e) \/ OpenEditor(e)
           \/ validateMutation(e) \/ ShowValidation(e) \/ ValidationFails(e)
    PROVE  PagesOK' /\ RowOK' /\ SavesOK'
<1>1. PagesOK'
  BY EditStep, ShowStep
<1>2. UNCHANGED <<rows, saving>>
  BY UnsavedStep
<1>3. RowOK' /\ SavesOK'
  BY <1>2 DEF rows, ShapeInv, RowOK, SavesOK
<1>. QED
  BY <1>1, <1>3

LEMMA CheckShape ==
    ASSUME ShapeInv, NEW s \in Savers, NEW d, HasShape(d), CheckSave(s, d)
    PROVE  PagesOK' /\ RowOK' /\ SavesOK'
<1>. DEFINE save == [NotSaving EXCEPT !.step = "checked", !.definition = d, !.tools = agent.tools]
<1>1. saving' = [saving EXCEPT ![s] = save] /\ UNCHANGED <<rows, editor>>
  BY DEF CheckSave
<1>2. save.definition = d
  BY DEF NotSaving
<1>. HIDE DEF save
<1>3. SavesOK'
  BY <1>1, <1>2 DEF ShapeInv, Inv, SavingTyped, SavesOK
<1>4. RowOK' /\ PagesOK'
  BY <1>1, PagesStay DEF ShapeInv, RowOK, rows
<1>. QED
  BY <1>3, <1>4

LEMMA SaveShape ==
    ASSUME ShapeInv, NEW s \in Savers,
           ReadVersion(s) \/ WriteWorkflow(s) \/ ShowSaved(s) \/ EndSave(s) \/ SaveFails(s)
    PROVE  PagesOK' /\ RowOK' /\ SavesOK'
<1>1. /\ PagesOK /\ DOMAIN saving = Savers
      /\ {"step", "definition", "tools", "version"} \subseteq DOMAIN saving[s]
  BY DEF ShapeInv, Inv, SavingTyped
<1>2. saving[s].step # "none" /\ HasShape(saving[s].definition)
  <2>1. saving[s].step \in {"checked", "read", "answered", "refetching"}
    BY DEF ReadVersion, WriteWorkflow, ShowSaved, EndSave, SaveFails
  <2>2. saving[s].step # "none"
    BY <2>1
  <2>. QED
    BY <2>2 DEF ShapeInv, SavesOK
<1>3. SavesOK'
  <2>1. PICK save :
           /\ saving' = [saving EXCEPT ![s] = save]
           /\ \/ save = NotSaving
              \/ save = [saving[s] EXCEPT !.step = "read", !.version = agent.version]
              \/ save = [saving[s] EXCEPT !.step = "answered", !.tools = Null, !.version = Null]
              \/ save = [saving[s] EXCEPT !.step = "refetching"]
    <3>1. CASE ReadVersion(s)
      BY <1>1, <3>1 DEF ReadVersion
    <3>2. CASE WriteWorkflow(s)
      BY <1>1, <3>2 DEF WriteWorkflow
    <3>3. CASE ShowSaved(s) \/ EndSave(s) \/ SaveFails(s)
      BY <1>1, <3>3 DEF ShowSaved, EndSave, SaveFails
    <3>. QED
      BY <3>1, <3>2, <3>3
  <2>2. save.step = "none" \/ save.definition = saving[s].definition
    BY <1>1, <2>1, NotSavingMoves
  <2>. QED
    BY <1>1, <1>2, <2>1, <2>2 DEF ShapeInv, SavesOK
<1>4. RowOK'
  <2>1. CASE WriteWorkflow(s)
    <3>1. agent'.definition = saving[s].definition
      BY <2>1 DEF WriteWorkflow, Row
    <3>. QED
      BY <1>2, <3>1 DEF RowOK
  <2>2. CASE ReadVersion(s) \/ ShowSaved(s) \/ EndSave(s) \/ SaveFails(s)
    <3>1. agent' = agent
      BY <2>2 DEF ReadVersion, ShowSaved, EndSave, SaveFails, rows
    <3>. QED
      BY <3>1 DEF ShapeInv, RowOK
  <2>. QED
    BY <2>1, <2>2
<1>5. PagesOK'
  <2>1. CASE editor' = editor
    BY <1>1, <2>1, PagesStay
  <2>2. ASSUME Showing(s), s \in Editors,
               \/ editor' = [editor EXCEPT ![s].valid = TRUE]
               \/ editor' = [editor EXCEPT ![s].definition = saving[s].definition]
        PROVE  PagesOK'
    <3>. DEFINE shown == [editor[s] EXCEPT !.valid = TRUE]
                saved == [editor[s] EXCEPT !.definition = saving[s].definition]
    <3>1. GoodPage(editor[s]) /\ DOMAIN editor = Editors
      BY <1>1, <2>2 DEF PagesOK
    <3>2. editor' = [editor EXCEPT ![s] = shown] \/ editor' = [editor EXCEPT ![s] = saved]
      BY <2>2, <3>1
    <3>3. /\ shown.definition = editor[s].definition /\ shown.data = editor[s].data
          /\ saved.definition = saving[s].definition /\ saved.data = editor[s].data
          /\ {"open", "definition", "data", "agent", "valid"} \subseteq DOMAIN shown
          /\ {"open", "definition", "data", "agent", "valid"} \subseteq DOMAIN saved
      BY <3>1 DEF GoodPage
    <3>. HIDE DEF shown, saved
    <3>4. GoodPage(shown) /\ GoodPage(saved)
      BY <1>2, <3>1, <3>3 DEF GoodPage
    <3>. QED
      BY <1>1, <2>2, <3>2, <3>4, PageChanges
  <2>3. \/ editor' = editor
        \/ /\ Showing(s)
           /\ \/ editor' = [editor EXCEPT ![s].valid = TRUE]
              \/ editor' = [editor EXCEPT ![s].definition = saving[s].definition]
    BY DEF ReadVersion, WriteWorkflow, ShowSaved, EndSave, SaveFails
  <2>4. ASSUME s \notin Editors,
               \/ editor' = [editor EXCEPT ![s].valid = TRUE]
               \/ editor' = [editor EXCEPT ![s].definition = saving[s].definition]
        PROVE  PagesOK'
    BY <1>1, <2>4 DEF PagesOK
  <2>. QED
    BY <2>1, <2>2, <2>3, <2>4
<1>. QED
  BY <1>3, <1>4, <1>5

LEMMA AgentShape ==
    ASSUME ShapeInv, UpdateAgent \/ DeleteAgent \/ InstallTemplate \/ ResetTemplate
    PROVE  PagesOK' /\ RowOK' /\ SavesOK'
<1>1. editor' = editor /\ saving' = saving
  BY DEF UpdateAgent, DeleteAgent, InstallTemplate, ResetTemplate
<1>2. PagesOK' /\ SavesOK'
  BY <1>1, PagesStay DEF ShapeInv, SavesOK
<1>3. RowOK'
  <2>1. CASE UpdateAgent \/ DeleteAgent
    <3>1. agent'.definition = agent.definition
      BY <2>1 DEF UpdateAgent, DeleteAgent, ShapeInv, Inv, AgentTyped
    <3>. QED
      BY <3>1 DEF ShapeInv, RowOK
  <2>2. CASE InstallTemplate \/ ResetTemplate
    <3>1. agent'.definition = Null
      BY <2>2 DEF InstallTemplate, ResetTemplate, templateData, Row
    <3>. QED
      BY <3>1 DEF RowOK
  <2>. QED
    BY <2>1, <2>2
<1>. QED
  BY <1>2, <1>3

LEMMA ShapeInit == Init => ShapeInv
<1>. SUFFICES ASSUME Init
              PROVE  ShapeInv
  OBVIOUS
<1>1. PagesOK
  BY MountedIsGood DEF Init, PagesOK
<1>2. RowOK
  BY DEF Init, RowOK, templateData, Row
<1>3. SavesOK
  BY NotSavingMoves DEF Init, SavesOK
<1>. QED
  BY <1>1, <1>2, <1>3, InvInit DEF ShapeInv

LEMMA ShapeNext == ShapeInv /\ [Next]_vars => ShapeInv'
<1>. SUFFICES ASSUME ShapeInv, [Next]_vars
              PROVE  PagesOK' /\ RowOK' /\ SavesOK'
  BY InvNext DEF ShapeInv
<1>1. CASE UNCHANGED vars
  <2>1. UNCHANGED <<agent, editor, saving>>
    BY <1>1 DEF vars
  <2>. QED
    BY <2>1, PagesStay DEF ShapeInv, RowOK, SavesOK
<1>2. ASSUME NEW e \in Editors, saveMutation(e)
      PROVE  PagesOK' /\ RowOK' /\ SavesOK'
  <2>1. HasShape(editor[e].definition)
    BY DEF ShapeInv, PagesOK, GoodPage
  <2>. QED
    BY <1>2, <2>1, CheckShape DEF saveMutation, Savers
<1>3. CASE ClientSaves
  <2>1. PICK d \in Posts : CheckSave(Client, d)
    BY <1>3 DEF ClientSaves
  <2>2. HasShape(d)
    BY <2>1, GraphsAssumption, AcceptedHasShape DEF CheckSave
  <2>. QED
    BY <2>1, <2>2, CheckShape DEF Savers
<1>4. ASSUME NEW e \in Editors,
             \/ addWorkflowNode(e) \/ connectNodes(e) \/ reconnectWorkflowEdge(e)
             \/ onNodesDelete(e) \/ onEdgesDelete(e)
             \/ updateSelectedEdgeCondition(e) \/ resetToTemplate(e) \/ Touch(e)
             \/ LoadWorkflow(e) \/ LoadAgents(e) \/ OpenEditor(e)
             \/ validateMutation(e) \/ ShowValidation(e) \/ ValidationFails(e)
      PROVE  PagesOK' /\ RowOK' /\ SavesOK'
  BY <1>4, PageShape
<1>5. ASSUME NEW s \in Savers,
             ReadVersion(s) \/ WriteWorkflow(s) \/ ShowSaved(s) \/ EndSave(s) \/ SaveFails(s)
      PROVE  PagesOK' /\ RowOK' /\ SavesOK'
  BY <1>5, SaveShape
<1>6. CASE UpdateAgent \/ DeleteAgent \/ InstallTemplate \/ ResetTemplate
  BY <1>6, AgentShape
<1>. QED
  BY <1>1, <1>2, <1>3, <1>4, <1>5, <1>6 DEF Next

(* The inductive invariant of the pages: every graph that a page shows, has *)
(* been answered, a row holds or a save carries has the shape.              *)
THEOREM ShapeInvariance == Spec => []ShapeInv
BY ShapeInit, ShapeNext, PTL DEF Spec

(* Whatever is drawn, deleted, connected and answered, in any number and    *)
(* order, the server would find nothing in a page's graph but nodes that    *)
(* are not reached, do not end or are missing.                              *)
THEOREM EditorsKeepShape == Spec => []EditorKeepsShape
<1>1. ShapeInv => EditorKeepsShape
  <2>. SUFFICES ASSUME ShapeInv, NEW e \in Editors
                PROVE  validateAgentWorkflowDefinition(editor[e].definition)
                          \subseteq {"ORPHANED_NODE", "UNREACHABLE_TERMINAL", "MISSING_TERMINAL"}
    BY DEF EditorKeepsShape
  <2>1. HasShape(editor[e].definition)
    BY DEF ShapeInv, PagesOK, GoodPage
  <2>2. IsGraph(editor[e].definition)
    BY <2>1 DEF HasShape
  <2>. QED
    BY <2>1, <2>2, ShapeIsValidated
<1>. QED
  BY <1>1, ShapeInvariance, PTL

-----------------------------------------------------------------------------
(* A run of a graph. *)

LEMMA RouteOfNode ==
    ASSUME NEW d, IsGraph(d), NEW n, NEW state
    PROVE  /\ \A t \in selectWorkflowRoute(d, n, state) : <<n, t>> \in Edges(d)
           /\ selectWorkflowRoute(d, n, state) = {} =>
                \A e \in ToSet(d.edges) : e.source = n => e.condition # "always"
<1>. DEFINE T == {e \in ToSet(d.edges) : e.source = n /\ evaluateCondition(e.condition, state)}
            open == Only(d.edges, T)
<1>1. selectWorkflowRoute(d, n, state) = IF open = <<>> THEN {} ELSE {open[1].target}
  BY DEF selectWorkflowRoute
<1>2. IsSeq(open) /\ ToSet(open) = ToSet(d.edges) \cap T
  <2>1. IsSeq(d.edges)
    BY GraphParts
  <2>. HIDE DEF T
  <2>. QED
    BY <2>1, OnlyKeeps
<1>3. \A e \in ToSet(d.edges) :
         e \in T <=> e.source = n /\ evaluateCondition(e.condition, state)
  OBVIOUS
<1>. HIDE DEF open, T
<1>4. open = <<>> => ToSet(open) = {}
  BY DEF ToSet
<1>5. open # <<>> => open[1] \in ToSet(open)
  <2>1. /\ open \in Seq(ToSet(open)) /\ DOMAIN open = 1 .. Len(open) /\ Len(open) \in Nat
    BY <1>2 DEF IsSeq
  <2>2. open # <<>> => 1 \in DOMAIN open
    BY <2>1
  <2>. QED
    BY <2>2 DEF ToSet
<1>6. CASE open = <<>>
  <2>1. \A e \in ToSet(d.edges) : e.source = n => ~evaluateCondition(e.condition, state)
    BY <1>2, <1>3, <1>4, <1>6
  <2>2. evaluateCondition("always", state)
    BY DEF evaluateCondition
  <2>. QED
    BY <1>1, <1>6, <2>1, <2>2
<1>7. CASE open # <<>>
  <2>1. open[1] \in ToSet(d.edges) /\ open[1].source = n
    BY <1>2, <1>3, <1>5, <1>7
  <2>2. <<n, open[1].target>> \in Edges(d)
    BY <2>1 DEF Edges
  <2>. QED
    BY <1>1, <1>7, <2>2
<1>. QED
  BY <1>6, <1>7

(* What a run meets: one node after the other along the edges.              *)
IsWalk(p, N, E) ==
    /\ p \in Seq(N) /\ p # <<>>
    /\ \A i \in 1 .. Len(p) - 1 : <<p[i], p[i + 1]>> \in E

(* Without a cycle a walk meets no node twice: what it met between the two  *)
(* times would be a cycle.                                                  *)
LEMMA WalkIsInjective ==
    ASSUME NEW N, NEW E, Acyclic(E), NEW p, IsWalk(p, N, E)
    PROVE  IsInjective(p)
<1>1. /\ DOMAIN p = 1 .. Len(p) /\ Len(p) \in Nat
      /\ \A i \in 1 .. Len(p) - 1 : <<p[i], p[i + 1]>> \in E
  BY DEF IsWalk
<1>2. ASSUME NEW i \in 1 .. Len(p), NEW j \in 1 .. Len(p), i < j, p[i] = p[j]
      PROVE  FALSE
  <2>. DEFINE C == {p[x] : x \in i .. j - 1}
  <2>1. C # {}
    <3>1. i \in i .. j - 1
      BY <1>1, <1>2
    <3>. QED
      BY <3>1
  <2>2. ASSUME NEW m \in C PROVE \E n \in C : <<m, n>> \in E
    <3>1. PICK x \in i .. j - 1 : m = p[x]
      OBVIOUS
    <3>2. x \in 1 .. Len(p) - 1 /\ (x + 1 \in i .. j - 1 \/ x + 1 = j) /\ i \in i .. j - 1
      BY <1>1, <1>2, <3>1
    <3>3. p[x + 1] \in C
      BY <1>2, <3>2
    <3>. QED
      BY <1>1, <3>1, <3>2, <3>3
  <2>. HIDE DEF C
  <2>. QED
    BY <2>1, <2>2 DEF Acyclic, IsCycle
<1>3. ASSUME NEW i \in 1 .. Len(p), NEW j \in 1 .. Len(p), p[i] = p[j]
      PROVE  i = j
  <2>1. i < j \/ j < i \/ i = j
    BY <1>1
  <2>. QED
    BY <1>2, <1>3, <2>1
<1>. QED
  BY <1>1, <1>3 DEF IsInjective

LEMMA WalkIsShort ==
    ASSUME NEW N, IsFiniteSet(N), NEW E, Acyclic(E), NEW p, IsWalk(p, N, E)
    PROVE  Len(p) <= Cardinality(N)
<1>1. p \in [1 .. Len(p) -> N] /\ Len(p) \in Nat
  BY DEF IsWalk
<1>2. p \in Injection(1 .. Len(p), N)
  BY <1>1, WalkIsInjective DEF Injection
<1>3. Cardinality(1 .. Len(p)) <= Cardinality(N)
  BY <1>2, FS_Injection
<1>4. Cardinality(1 .. Len(p)) = Len(p)
  <2>1. 1 \in Int /\ Len(p) \in Int /\ Len(p) \in Nat
    BY <1>1
  <2>2. Cardinality(1 .. Len(p)) = IF 1 > Len(p) THEN 0 ELSE Len(p) - 1 + 1
    BY <2>1, FS_Interval
  <2>. QED
    BY <2>1, <2>2
<1>. QED
  BY <1>3, <1>4

LEMMA WalkGoesOn ==
    ASSUME NEW N, NEW E, E \subseteq N \X N, NEW p, IsWalk(p, N, E),
           NEW n, <<p[Len(p)], n>> \in E
    PROVE  IsWalk(Append(p, n), N, E) /\ Len(Append(p, n)) = Len(p) + 1
<1>1. /\ n \in N /\ p \in Seq(N) /\ Len(p) \in Nat /\ Len(p) # 0
      /\ \A i \in 1 .. Len(p) - 1 : <<p[i], p[i + 1]>> \in E
  BY DEF IsWalk
<1>. DEFINE q == Append(p, n)
<1>2. /\ q \in Seq(N) /\ q # <<>> /\ Len(q) = Len(p) + 1
      /\ \A i \in 1 .. Len(p) : q[i] = p[i]
      /\ q[Len(p) + 1] = n
  BY <1>1
<1>. HIDE DEF q
<1>3. ASSUME NEW i \in 1 .. Len(q) - 1 PROVE <<q[i], q[i + 1]>> \in E
  <2>1. CASE i = Len(p)
    BY <1>1, <1>2, <2>1
  <2>2. CASE i # Len(p)
    <3>1. i \in 1 .. Len(p) - 1 /\ i \in 1 .. Len(p) /\ i + 1 \in 1 .. Len(p)
      BY <1>1, <1>2, <2>2
    <3>. QED
      BY <1>1, <1>2, <3>1
  <2>. QED
    BY <2>1, <2>2
<1>. QED
  BY <1>2, <1>3 DEF IsWalk, q

(* Why a run ends whose path is p, or that it goes on.                      *)
EndsFor(d, tools, limit, p, end) ==
    LET at == p[Len(p)]
    IN /\ end # "compile"
       /\ end = "limit" <=> Len(p) >= limit
       /\ end = "disabled" => TypeOf(d, at) \in guardedToolHandler \ tools
       /\ end = "unroutable" =>
            \A e \in ToSet(d.edges) : e.source = at => e.condition # "always"

LEMMA RunOfGraph ==
    ASSUME NEW d, HasShape(d), Accepted(d), Compiles(d), NEW tools, NEW field,
           NEW limit \in Nat
    PROVE  LET run == Execution(d, tools, field, limit)
           IN /\ IsWalk(run.path, nodeIds(d), Edges(d)) /\ run.end # "none"
              /\ EndsFor(d, tools, limit, run.path, run.end)
<1>. DEFINE outputs(path) ==
              Cardinality({i \in DOMAIN path : TypeOf(d, path[i]) \in guardedToolHandler})
            next(path) ==
              selectWorkflowRoute(d, Last(path), [tools |-> tools, field |-> field,
                                                  outputs |-> outputs(path)])
            end(path) ==
              LET type == TypeOf(d, Last(path))
              IN IF Len(path) >= limit THEN "limit"
                 ELSE IF type \in guardedToolHandler \ tools THEN "disabled"
                 ELSE IF type \in Terminal THEN type
                 ELSE IF next(path) = {} THEN "unroutable"
                 ELSE "none"
            further(path) == IF end(path) # "none" THEN path
                             ELSE Append(path, CHOOSE n \in next(path) : TRUE)
            walk[k \in 0 .. limit] ==
              IF k = 0 THEN <<starts(d)[1].id>>
              ELSE LET path == walk[k - 1]
                   IN IF end(path) # "none" THEN path
                      ELSE Append(path, CHOOSE n \in next(path) : TRUE)
            N == nodeIds(d)
            E == Edges(d)
            first == starts(d)[1].id
<1>1. Execution(d, tools, field, limit) = [path |-> walk[limit], end |-> end(walk[limit])]
  BY DEF Execution
<1>2. /\ IsGraph(d) /\ Acyclic(E) /\ E \subseteq N \X N /\ first \in N
  <2>1. /\ IsGraph(d) /\ Acyclic(E) /\ NoDangling(d) /\ starts(d)[1] \in ToSet(d.nodes)
    BY OneStart DEF HasShape
  <2>. QED
    BY <2>1 DEF NoDangling, nodeIds
<1>3. ASSUME NEW p
      PROVE  /\ \A n \in next(p) : <<p[Len(p)], n>> \in E
             /\ next(p) = {} =>
                  \A e \in ToSet(d.edges) : e.source = p[Len(p)] => e.condition # "always"
  <2>1. Last(p) = p[Len(p)]
    BY DEF Last
  <2>. HIDE DEF outputs
  <2>. QED
    BY <1>2, <2>1, RouteOfNode
<1>. HIDE DEF next
<1>4. ASSUME NEW p PROVE EndsFor(d, tools, limit, p, end(p)) /\ (end(p) = "none" => next(p) # {})
  <2>1. Last(p) = p[Len(p)] /\ Terminal = {"complete", "fail"}
    BY DEF Last, Terminal
  <2>. QED
    BY <1>3, <2>1 DEF EndsFor
<1>. HIDE DEF end
<1>5. ASSUME NEW p, end(p) = "none"
      PROVE  /\ further(p) = Append(p, CHOOSE n \in next(p) : TRUE)
             /\ <<p[Len(p)], CHOOSE n \in next(p) : TRUE>> \in E
  BY <1>3, <1>4, <1>5
<1>6. \A p \in Seq(N) : further(p) \in Seq(N)
  <2>1. ASSUME NEW p \in Seq(N), end(p) = "none" PROVE further(p) \in Seq(N)
    <3>. DEFINE n == CHOOSE n \in next(p) : TRUE
    <3>1. further(p) = Append(p, n) /\ <<p[Len(p)], n>> \in E
      BY <1>5, <2>1
    <3>2. n \in N
      BY <1>2, <3>1
    <3>. HIDE DEF n, further, N
    <3>. QED
      BY <3>1, <3>2
  <2>2. \A p \in Seq(N) : end(p) # "none" => further(p) = p
    OBVIOUS
  <2>. HIDE DEF further, N
  <2>. QED
    BY <2>1, <2>2
<1>. HIDE DEF further
<1>. DEFINE step == [q \in Seq(N) \X (1 .. limit) |-> further(q[1])]
<1>7. /\ step \in [Seq(N) \X (1 .. limit) -> Seq(N)]
      /\ \A p \in Seq(N), k \in 1 .. limit : step[<<p, k>>] = further(p)
  BY <1>6
<1>8. <<first>> \in Seq(N)
  BY <1>2
<1>. HIDE DEF step, N, E
<1>9. PICK f : IsRecursion(f, Seq(N), limit, <<first>>, step)
  BY <1>7, <1>8, RecursionExists
<1>10. f = [k \in 0 .. limit |->
              IF k = 0 THEN <<first>>
              ELSE IF end(f[k - 1]) # "none" THEN f[k - 1]
                   ELSE Append(f[k - 1], CHOOSE n \in next(f[k - 1]) : TRUE)]
  <2>1. /\ f \in [0 .. limit -> Seq(N)] /\ f[0] = <<first>>
        /\ \A k \in 1 .. limit : f[k] = step[<<f[k - 1], k>>]
    BY <1>9 DEF IsRecursion
  <2>2. ASSUME NEW k \in 1 .. limit PROVE f[k] = further(f[k - 1])
    <3>1. k - 1 \in 0 .. limit /\ f[k - 1] \in Seq(N)
      BY <2>1
    <3>. QED
      BY <1>7, <2>1, <3>1
  <2>3. \A k \in 0 .. limit : k = 0 \/ k \in 1 .. limit
    OBVIOUS
  <2>. HIDE DEF first
  <2>. QED
    BY <2>1, <2>2, <2>3 DEF further
<1>11. walk = [k \in 0 .. limit |->
              IF k = 0 THEN <<first>>
              ELSE IF end(walk[k - 1]) # "none" THEN walk[k - 1]
                   ELSE Append(walk[k - 1], CHOOSE n \in next(walk[k - 1]) : TRUE)]
  BY <1>10
<1>. HIDE DEF walk, first
<1>12. walk[0] = <<first>> /\ \A k \in 1 .. limit : walk[k] = further(walk[k - 1])
  <2>1. 0 \in 0 .. limit /\ \A k \in 1 .. limit : k \in 0 .. limit /\ k # 0
    OBVIOUS
  <2>. QED
    BY <1>11, <2>1 DEF further
(* The path grows by a node a step until the run ends.                      *)
<1>. DEFINE Good(k) == IsWalk(walk[k], N, E) /\ (end(walk[k]) = "none" => Len(walk[k]) = k + 1)
            T == {k \in 0 .. limit : Good(k)}
<1>13. 0 \in T
  <2>1. IsWalk(<<first>>, N, E) /\ Len(<<first>>) = 1
    BY <1>8 DEF IsWalk
  <2>. QED
    BY <1>12, <2>1
<1>14. ASSUME NEW k \in 1 .. limit, k - 1 \in T PROVE k \in T
  <2>. DEFINE p == walk[k - 1]
  <2>1. IsWalk(p, N, E) /\ (end(p) = "none" => Len(p) = (k - 1) + 1) /\ walk[k] = further(p)
    BY <1>12, <1>14
  <2>. HIDE DEF p
  <2>2. CASE end(p) # "none"
    <3>1. walk[k] = p
      BY <2>1, <2>2 DEF further
    <3>. QED
      BY <2>1, <2>2, <3>1
  <2>3. CASE end(p) = "none"
    <3>. DEFINE n == CHOOSE n \in next(p) : TRUE
    <3>1. walk[k] = Append(p, n) /\ <<p[Len(p)], n>> \in E
      BY <1>5, <2>1, <2>3
    <3>. HIDE DEF n
    <3>2. E \subseteq N \X N
      BY <1>2 DEF N, E
    <3>3. IsWalk(walk[k], N, E) /\ Len(walk[k]) = Len(p) + 1
      BY <2>1, <3>1, <3>2, WalkGoesOn
    <3>4. Len(walk[k]) = k + 1
      BY <2>1, <2>3, <3>3
    <3>. QED
      BY <3>3, <3>4
  <2>. QED
    BY <2>2, <2>3
<1>15. Good(limit)
  <2>. HIDE DEF Good, T
  <2>1. \A k \in 0 .. limit : k \in T
    BY <1>13, <1>14, InductUpTo
  <2>2. limit \in T
    BY <2>1
  <2>. QED
    BY <2>2 DEF T
<1>16. end(walk[limit]) # "none"
  <2>1. SUFFICES ASSUME end(walk[limit]) = "none" PROVE FALSE
    OBVIOUS
  <2>2. Len(walk[limit]) >= limit
    BY <1>15, <2>1
  <2>. QED
    BY <1>4, <2>1, <2>2 DEF EndsFor
<1>. QED
  BY <1>1, <1>4, <1>15, <1>16 DEF N, E

LEMMA RunEnds ==
    ASSUME ShapeInv
    PROVE  RunEndsForReason
<1>. DEFINE d == agent.definition
<1>. SUFFICES ASSUME d # Null, NEW field \in BOOLEAN
              PROVE  LET run == Execution(d, agent.tools, field, RecursionLimit)
                         at == Last(run.path)
                     IN /\ IsInjective(run.path) /\ run.end # "none"
                        /\ run.end = "compile" => ~Compiles(d)
                        /\ run.end = "limit" => Len(d.nodes) >= RecursionLimit
                        /\ run.end = "disabled" =>
                              \/ agent.tools # agent.vetted
                              \/ TypeOf(d, at) = "github.list_repositories"
                        /\ run.end = "unroutable" =>
                              \A i \in DOMAIN d.edges :
                                 d.edges[i].source = at => d.edges[i].condition # "always"
  BY DEF RunEndsForReason
<1>1. /\ HasShape(d) /\ Accepted(d) /\ workflowToolIssues(d, agent.vetted) = {}
      /\ RecursionLimit \in Nat
  BY LimitsAssumption DEF ShapeInv, RowOK, Inv, StoredIsAccepted
<1>. DEFINE run == Execution(d, agent.tools, field, RecursionLimit)
            at == Last(run.path)
            tools == agent.tools
<1>2. CASE ~Compiles(d)
  <2>1. run = [path |-> <<starts(d)[1].id>>, end |-> "compile"]
    BY <1>2 DEF Execution
  <2>2. run.path = <<starts(d)[1].id>> /\ run.end = "compile"
    BY <2>1
  <2>. HIDE DEF run
  <2>3. IsInjective(run.path)
    BY <2>2 DEF IsInjective
  <2>. QED
    BY <1>2, <2>2, <2>3 DEF run
<1>3. CASE Compiles(d)
  <2>1. /\ IsWalk(run.path, nodeIds(d), Edges(d)) /\ run.end # "none"
        /\ EndsFor(d, tools, RecursionLimit, run.path, run.end)
    BY <1>1, <1>3, RunOfGraph
  <2>. HIDE DEF run, tools, d
  <2>2. /\ IsFiniteSet(nodeIds(d)) /\ Cardinality(nodeIds(d)) = Len(d.nodes)
        /\ Acyclic(Edges(d)) /\ Len(d.nodes) \in Nat /\ DistinctIds(d.nodes)
    BY <1>1, GraphParts DEF HasShape, IsSeq
  <2>3. IsInjective(run.path) /\ Len(run.path) <= Len(d.nodes)
    BY <2>1, <2>2, WalkIsInjective, WalkIsShort
  <2>4. /\ at = run.path[Len(run.path)] /\ at \in nodeIds(d) /\ Len(run.path) \in Nat
    <3>1. /\ Len(run.path) \in 1 .. Len(run.path) /\ Len(run.path) \in Nat
          /\ run.path \in Seq(nodeIds(d))
      BY <2>1 DEF IsWalk
    <3>. QED
      BY <3>1 DEF Last
  <2>. HIDE DEF at
  <2>5. /\ run.end # "compile" /\ (run.end = "limit" => Len(run.path) >= RecursionLimit)
        /\ run.end = "disabled" => TypeOf(d, at) \in guardedToolHandler \ tools
        /\ run.end = "unroutable" =>
             \A e \in ToSet(d.edges) : e.source = at => e.condition # "always"
    BY <2>1, <2>4 DEF EndsFor
  <2>6. run.end = "limit" => Len(d.nodes) >= RecursionLimit
    BY <1>1, <2>2, <2>3, <2>4, <2>5
  <2>7. ASSUME run.end = "disabled", tools = agent.vetted
        PROVE  TypeOf(d, at) = "github.list_repositories"
    <3>1. SUFFICES ASSUME TypeOf(d, at) \in {"knowledge.search"}, "knowledge.search" \notin tools
                   PROVE  FALSE
      BY <2>5, <2>7 DEF guardedToolHandler
    <3>2. at \in IdsOf(d.nodes, {"knowledge.search"})
      BY <2>2, <2>4, <3>1, TypeOfNode
    <3>3. PICK n \in ToSet(d.nodes) : n.type = "knowledge.search"
      BY <3>2 DEF IdsOf
    <3>4. "knowledge.search" \in workflowToolIssues(d, tools)
      <4>. DEFINE S == {workflowToolIdForNode(m) : m \in ToSet(d.nodes)}
      <4>1. "knowledge.search" \in workflowToolIdForNode(n)
        BY <3>3 DEF workflowToolIdForNode
      <4>2. workflowToolIdForNode(n) \in S
        OBVIOUS
      <4>3. workflowToolIssues(d, tools) = (UNION S) \ tools
        BY DEF workflowToolIssues
      <4>. HIDE DEF S
      <4>. QED
        BY <3>1, <4>1, <4>2, <4>3
    <3>. QED
      BY <1>1, <2>7, <3>4
  <2>8. ASSUME run.end = "unroutable", NEW i \in DOMAIN d.edges, d.edges[i].source = at
        PROVE  d.edges[i].condition # "always"
    <3>1. d.edges[i] \in ToSet(d.edges)
      BY DEF ToSet
    <3>. QED
      BY <2>5, <2>8, <3>1
  <2>. QED
    BY <2>1, <2>3, <2>5, <2>6, <2>7, <2>8 DEF run, at, tools, d
<1>. QED
  BY <1>2, <1>3

(* A run of a stored graph, of any size and under any limit, meets no node  *)
(* twice and ends: at an end node, or for one of the five reasons.          *)
THEOREM RunsEndForReason == Spec => []RunEndsForReason
BY RunEnds, ShapeInvariance, PTL

=============================================================================
