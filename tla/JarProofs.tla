------------------------------ MODULE JarProofs -------------------------------
(***************************************************************************)
(* Theorems about Jar, for any tree, names and number of commands.         *)
(*                                                                         *)
(* First what the recursive functions of the model compute, by the least   *)
(* place where they would not; then the walk: what has been visited, what  *)
(* is on the stack and what has been found, as long as the walk goes on;   *)
(* and last the archive.  Two walks of one tree are one sequence of states *)
(* (Trace), so that what two builds write at one place is the same; and    *)
(* what the last one to truncate the archive has written is there, until a *)
(* build fails.                                                            *)
(***************************************************************************)
EXTENDS Jar, FiniteSetTheorems, SequenceTheorems, WellFoundedInduction, TLAPS

-----------------------------------------------------------------------------
(* Recursion.                                                              *)

LEMMA LeastNat == ASSUME NEW S, S \subseteq Nat, S # {} PROVE \E n \in S : \A m \in S : n <= m
<1>1. PICK n \in S : \A m \in S : ~(<<m, n>> \in OpToRel(<, Nat))
  BY NatLessThanWellFounded, WFMin
<1>2. \A m \in S : ~(m < n)
  BY <1>1 DEF OpToRel
<1> QED BY <1>2

\* There is a function defined by recursion on an interval.
LEMMA RecursionExists ==
    ASSUME NEW X, NEW base \in X, NEW n \in Nat, NEW step \in [1..n -> [X -> X]]
    PROVE  \E f \in [0..n -> X] : f[0] = base /\ \A i \in 1..n : f[i] = step[i][f[i - 1]]
<1> DEFINE Is(f, k) == f \in [0..k -> X] /\ f[0] = base
                       /\ \A i \in 1..k : f[i] = step[i][f[i - 1]]
           Missing == {k \in 0..n : \A f : ~Is(f, k)}
<1>1. n \notin Missing
  <2> SUFFICES ASSUME Missing # {} PROVE FALSE
    OBVIOUS
  <2>1. PICK k \in Missing : \A m \in Missing : k <= m
    <3>1. Missing \subseteq Nat
      OBVIOUS
    <3> HIDE DEF Missing
    <3> QED BY <3>1, LeastNat
  <2>2. CASE k = 0
    <3>1. Is([i \in 0..0 |-> base], 0)
      OBVIOUS
    <3> QED BY <2>1, <2>2, <3>1
  <2>3. CASE k # 0
    <3>1. k - 1 \in 0..n /\ k - 1 \notin Missing
      <4>1. k \in 0..n
        OBVIOUS
      <4> HIDE DEF Missing
      <4> QED BY <2>1, <2>3, <4>1
    <3>2. PICK f : Is(f, k - 1)
      BY <3>1
    <3> DEFINE g == [i \in 0..k |-> IF i = k THEN step[k][f[k - 1]] ELSE f[i]]
    <3>3. k \in 1..n /\ k - 1 \in 0..(k - 1)
      BY <2>1, <2>3
    <3>4. g \in [0..k -> X]
      BY <3>2, <3>3
    <3>5. g[0] = base
      BY <3>2, <3>3
    <3>6. ASSUME NEW i \in 1..k PROVE g[i] = step[i][g[i - 1]]
      BY <3>2, <3>3
    <3>7. Is(g, k)
      BY <3>4, <3>5, <3>6
    <3> QED BY <2>1, <3>7
  <2> QED BY <2>2, <2>3
<1> QED BY <1>1

-----------------------------------------------------------------------------
(* Paths.                                                                  *)

Name == ToSet(Names)
Nodes == Dirs \cup Leaves
Trees == [Dirs -> [Name -> Nodes]]
Paths == Seq(Name)

\* A step along a path.
Next1(tree, d, name) == IF d \in Dirs THEN tree[d][name] ELSE "none"

\* What a path leads to is defined by going along it.
LEMMA FollowIs ==
    ASSUME NEW tree \in Trees, NEW path \in Paths
    PROVE  LET f == Follow(tree, path)
           IN  /\ f \in [0..Len(path) -> Nodes]
               /\ f[0] = Root
               /\ \A i \in 1..Len(path) : f[i] = Next1(tree, f[i - 1], path[i])
<1> DEFINE n == Len(path)
           step == [i \in 1..n |-> [d \in Nodes |-> Next1(tree, d, path[i])]]
           Is(f) == f = [i \in 0..n |->
                            IF i = 0 THEN Root
                            ELSE IF f[i - 1] \in Dirs THEN tree[f[i - 1]][path[i]]
                            ELSE "none"]
           g == Follow(tree, path)
<1>1. n \in Nat /\ \A i \in 1..n : path[i] \in Name
  BY DEF Paths
<1>2. step \in [1..n -> [Nodes -> Nodes]]
  BY <1>1 DEF Next1, Nodes, Trees, Leaves
<1>3. Root \in Nodes
  BY JarAssumption DEF Nodes
<1>4. \A i \in 1..n, d \in Nodes : step[i][d] = Next1(tree, d, path[i])
  OBVIOUS
<1> HIDE DEF n, step, g, Is
<1>5. PICK f \in [0..n -> Nodes] : f[0] = Root /\ \A i \in 1..n : f[i] = step[i][f[i - 1]]
  BY <1>1, <1>2, <1>3, RecursionExists, SMTT(20)
<1>6. Is(f)
  <2>1. \A i \in 1..n : step[i][f[i - 1]] = Next1(tree, f[i - 1], path[i])
    BY <1>1, <1>4, <1>5
  <2> QED BY <1>1, <1>5, <2>1 DEF Next1, Is
<1>7. Is(g)
  <2>1. g = CHOOSE h : Is(h)
    BY DEF g, Follow, Is, n
  <2> QED BY <1>6, <2>1
<1>8. /\ g = [i \in 0..n |-> g[i]] /\ g[0] = Root
      /\ \A i \in 1..n : g[i] = Next1(tree, g[i - 1], path[i])
  BY <1>1, <1>7 DEF Next1, Is
<1>9. \A i \in 0..n : g[i] \in Nodes
  <2>1. \A i \in 1..n : \A d : Next1(tree, d, path[i]) \in Nodes
    BY <1>1 DEF Next1, Nodes, Trees, Leaves
  <2>2. \A i \in 0..n : i = 0 \/ i \in 1..n
    BY <1>1
  <2> QED BY <1>3, <1>8, <2>1, <2>2, Zenon
<1>10. g \in [0..n -> Nodes]
  BY <1>8, <1>9
<1> QED BY <1>8, <1>10 DEF n, g

\* The names of a set, sorted, are each of them once.
LEMMA SortedIs ==
    ASSUME NEW T
    PROVE  /\ Sorted(T) \in Seq(Name)
           /\ \A t : (\E i \in DOMAIN Sorted(T) : Sorted(T)[i] = t) <=> t \in T \cap Name
           /\ \A i, j \in DOMAIN Sorted(T) : Sorted(T)[i] = Sorted(T)[j] => i = j
<1> DEFINE n == Len(Names)
           X == Seq(Name)
           step == [i \in 1..n |-> [s \in X |-> IF Names[i] \in T THEN Append(s, Names[i]) ELSE s]]
           Is(f) == f = [i \in 0..n |->
                            IF i = 0 THEN <<>>
                            ELSE IF Names[i] \in T THEN Append(f[i - 1], Names[i])
                            ELSE f[i - 1]]
           g == CHOOSE f : Is(f)
           Has(s, t) == \E i \in DOMAIN s : s[i] = t
           Good(i) == /\ g[i] \in X
                      /\ \A t : Has(g[i], t) <=> t \in T /\ \E j \in 1..i : Names[j] = t
                      /\ \A j, k \in DOMAIN g[i] : g[i][j] = g[i][k] => j = k
<1>1. /\ n \in Nat /\ \A i \in 1..n : Names[i] \in Name
      /\ \A i, j \in 1..n : Names[i] = Names[j] => i = j
      /\ Name = {Names[i] : i \in 1..n}
  BY JarAssumption DEF Name, ToSet, IsInjective
<1>2. step \in [1..n -> [X -> X]]
  BY <1>1
<1>3. <<>> \in X
  OBVIOUS
<1>4. \A i \in 1..n, s \in X : step[i][s] = IF Names[i] \in T THEN Append(s, Names[i]) ELSE s
  OBVIOUS
<1>5. Sorted(T) = g[n]
  BY DEF Sorted
<1> HIDE DEF n, step, g, Is, X
<1>6. PICK f \in [0..n -> X] : f[0] = <<>> /\ \A i \in 1..n : f[i] = step[i][f[i - 1]]
  BY <1>1, <1>2, <1>3, RecursionExists
<1>7. Is(f)
  <2>1. \A i \in 1..n : f[i - 1] \in X
    BY <1>1, <1>6
  <2>2. \A i \in 1..n : f[i] = IF Names[i] \in T THEN Append(f[i - 1], Names[i]) ELSE f[i - 1]
    BY <1>4, <1>6, <2>1
  <2>3. \A i \in 0..n : i = 0 \/ i \in 1..n
    BY <1>1
  <2>4. f = [i \in 0..n |-> f[i]]
    BY <1>6
  <2> QED BY <1>6, <2>2, <2>3, <2>4 DEF Is
<1>8. Is(g)
  BY <1>7 DEF g
<1>9. g[0] = <<>> /\ \A i \in 1..n : g[i] = IF Names[i] \in T THEN Append(g[i - 1], Names[i]) ELSE g[i - 1]
  <2>1. \A i \in 0..n : g[i] = IF i = 0 THEN <<>>
                              ELSE IF Names[i] \in T THEN Append(g[i - 1], Names[i])
                              ELSE g[i - 1]
    BY <1>8, Zenon DEF Is
  <2>2. 0 \in 0..n /\ \A i \in 1..n : i \in 0..n /\ i # 0
    BY <1>1
  <2> QED BY <2>1, <2>2
<1>10. Good(0)
  BY <1>3, <1>9
<1>11. ASSUME NEW i \in 1..n, Good(i - 1) PROVE Good(i)
  <2>0. 1..i = (1..(i - 1)) \cup {i} /\ i \notin 1..(i - 1) /\ 1..i \subseteq 1..n
    BY <1>1
  <2>1. CASE Names[i] \notin T
    <3>1. g[i] = g[i - 1]
      BY <1>9, <2>1
    <3>2. \A t : t \in T => ((\E j \in 1..i : Names[j] = t) <=> \E j \in 1..(i - 1) : Names[j] = t)
      BY <2>0, <2>1
    <3> QED BY <1>11, <3>1, <3>2
  <2>2. CASE Names[i] \in T
    <3> DEFINE s == g[i - 1]
    <3>1. g[i] = Append(s, Names[i]) /\ s \in X /\ Names[i] \in Name
      BY <1>1, <1>9, <1>11, <2>2
    <3>2. ~Has(s, Names[i])
      <4>1. \A j \in 1..(i - 1) : Names[j] # Names[i]
        BY <1>1, <2>0
      <4> QED BY <1>11, <4>1
    <3> HIDE DEF s
    <3>3. /\ g[i] \in X
          /\ DOMAIN g[i] = DOMAIN s \cup {Len(s) + 1}
          /\ \A j \in DOMAIN s : g[i][j] = s[j]
          /\ g[i][Len(s) + 1] = Names[i]
      BY <3>1 DEF X
    <3>4. \A t : Has(g[i], t) <=> Has(s, t) \/ t = Names[i]
      BY <3>3
    <3>5. \A t : Has(g[i], t) <=> t \in T /\ \E j \in 1..i : Names[j] = t
      <4>1. \A t : Has(s, t) <=> t \in T /\ \E j \in 1..(i - 1) : Names[j] = t
        BY <1>11 DEF s
      <4> QED BY <2>0, <2>2, <3>4, <4>1
    <3>6. \A j, k \in DOMAIN g[i] : g[i][j] = g[i][k] => j = k
      <4>1. \A j, k \in DOMAIN s : s[j] = s[k] => j = k
        BY <1>11 DEF s
      <4> QED BY <3>2, <3>3, <4>1
    <3> QED BY <3>3, <3>5, <3>6
  <2> QED BY <2>1, <2>2
<1> HIDE DEF Good
<1>12. Good(n)
  <2> DEFINE Bad == {i \in 0..n : ~Good(i)}
  <2> SUFFICES ASSUME Bad # {} PROVE FALSE
    BY <1>1
  <2>1. PICK i \in Bad : \A j \in Bad : i <= j
    <3>1. Bad \subseteq Nat
      OBVIOUS
    <3> HIDE DEF Bad
    <3> QED BY <3>1, LeastNat
  <2>2. i # 0 /\ i \in 1..n /\ i - 1 \in 0..n
    BY <1>1, <1>10, <2>1
  <2>3. i - 1 \notin Bad
    <3> HIDE DEF Bad
    <3> QED BY <2>1, <2>2
  <2> QED BY <1>11, <2>2, <2>3
<1> QED BY <1>1, <1>5, <1>12 DEF Good, X

\* p is the path of a directory above that of q, or q.
Above(p, q) == Len(p) <= Len(q) /\ \A i \in 1..Len(p) : p[i] = q[i]

LEMMA AboveFacts ==
    ASSUME NEW p \in Paths, NEW q \in Paths
    PROVE  /\ Above(p, p) /\ Above(<<>>, p)
           /\ Above(p, q) /\ Above(q, p) => p = q
           /\ \A r \in Paths : Above(p, q) /\ Above(q, r) => Above(p, r)
           /\ Above(p, q) /\ p # q =>
                  Len(p) < Len(q) /\ q[Len(p) + 1] \in Name /\ Above(Append(p, q[Len(p) + 1]), q)
           /\ Above(p, q) => p = SubSeq(q, 1, Len(p)) /\ Len(p) \in 0..Len(q)
           /\ \A i \in 0..Len(q) : LET s == SubSeq(q, 1, i)
                                   IN s \in Paths /\ Len(s) = i /\ Above(s, q)
<1> USE DEF Above, Paths
<1>1. Above(p, p) /\ Above(<<>>, p)
  OBVIOUS
<1>2. Above(p, q) /\ Above(q, p) => p = q
  OBVIOUS
<1>3. \A r \in Paths : Above(p, q) /\ Above(q, r) => Above(p, r)
  OBVIOUS
<1>4. ASSUME Above(p, q), p # q
      PROVE  Len(p) < Len(q) /\ q[Len(p) + 1] \in Name /\ Above(Append(p, q[Len(p) + 1]), q)
  <2>1. Len(p) < Len(q)
    BY <1>2, <1>4
  <2> QED BY <1>4, <2>1
<1>5. ASSUME Above(p, q) PROVE p = SubSeq(q, 1, Len(p)) /\ Len(p) \in 0..Len(q)
  BY <1>5
<1>6. ASSUME NEW i \in 0..Len(q)
      PROVE  LET s == SubSeq(q, 1, i) IN s \in Paths /\ Len(s) = i /\ Above(s, q)
  OBVIOUS
<1> QED BY <1>1, <1>2, <1>3, <1>4, <1>5, <1>6

LEMMA AboveAppend ==
    ASSUME NEW p \in Paths, NEW q \in Paths, NEW n \in Name
    PROVE  /\ Append(p, n) \in Paths /\ Len(Append(p, n)) = Len(p) + 1
           /\ Above(p, Append(p, n)) /\ ~Above(Append(p, n), p)
           /\ Above(q, Append(p, n)) <=> Above(q, p) \/ q = Append(p, n)
           /\ Above(Append(p, n), q) => Above(p, q)
           /\ \A m : Append(p, n) = Append(q, m) => p = q /\ n = m
<1> USE DEF Above, Paths
<1>1. Append(p, n) \in Paths /\ Len(Append(p, n)) = Len(p) + 1
  OBVIOUS
<1>2. Above(p, Append(p, n)) /\ ~Above(Append(p, n), p)
  OBVIOUS
<1>3. Above(q, Append(p, n)) <=> Above(q, p) \/ q = Append(p, n)
  OBVIOUS
<1>4. Above(Append(p, n), q) => Above(p, q)
  OBVIOUS
<1>5. \A m : Append(p, n) = Append(q, m) => p = q /\ n = m
  <2> TAKE m
  <2> HAVE Append(p, n) = Append(q, m)
  <2>1. Len(p) = Len(q)
    OBVIOUS
  <2> QED BY <2>1
<1> QED BY <1>1, <1>2, <1>3, <1>4, <1>5

Target(tree, p) == Follow(tree, p)[Len(p)]

\* Paths lead to the same along what they share.
LEMMA FollowAbove ==
    ASSUME NEW tree \in Trees, NEW p \in Paths, NEW q \in Paths, Above(p, q),
           NEW i \in 0..Len(p)
    PROVE  Follow(tree, p)[i] = Follow(tree, q)[i]
<1> DEFINE f == Follow(tree, p)
           g == Follow(tree, q)
           Bad == {j \in 0..Len(p) : f[j] # g[j]}
<1> SUFFICES ASSUME Bad # {} PROVE FALSE
  OBVIOUS
<1>1. /\ f[0] = g[0]
      /\ \A j \in 1..Len(p) : f[j] = Next1(tree, f[j - 1], p[j])
      /\ \A j \in 1..Len(q) : g[j] = Next1(tree, g[j - 1], q[j])
  BY FollowIs
<1> HIDE DEF f, g
<1>2. Len(p) \in Nat /\ Len(q) \in Nat /\ 1..Len(p) \subseteq 1..Len(q)
  BY DEF Paths, Above
<1>3. PICK j \in Bad : \A k \in Bad : j <= k
  <2>1. Bad \subseteq Nat
    OBVIOUS
  <2> HIDE DEF Bad
  <2> QED BY <2>1, LeastNat
<1>4. j \in 1..Len(p) /\ j - 1 \in 0..Len(p)
  BY <1>1, <1>2
<1>5. f[j - 1] = g[j - 1]
  <2>1. j - 1 \notin Bad
    <3>1. j \in Nat
      BY <1>4
    <3> HIDE DEF Bad
    <3> QED BY <1>3, <3>1
  <2> QED BY <1>4, <2>1
<1> QED BY <1>1, <1>2, <1>4, <1>5 DEF Above

LEMMA TargetIs ==
    ASSUME NEW tree \in Trees, NEW p \in Paths
    PROVE  /\ Target(tree, <<>>) = Root
           /\ Target(tree, p) \in Nodes
           /\ \A n \in Name : Target(tree, Append(p, n)) = Next1(tree, Target(tree, p), n)
           /\ \A q \in Paths : Above(p, q) => Follow(tree, q)[Len(p)] = Target(tree, p)
<1>1. Len(p) \in Nat /\ <<>> \in Paths /\ Len(<<>>) = 0
  BY DEF Paths
<1>2. Target(tree, <<>>) = Root
  BY <1>1, FollowIs DEF Target
<1>3. Target(tree, p) \in Nodes
  <2>1. Follow(tree, p) \in [0..Len(p) -> Nodes] /\ Len(p) \in 0..Len(p)
    BY <1>1, FollowIs
  <2> QED BY <2>1 DEF Target
<1>4. ASSUME NEW q \in Paths, Above(p, q) PROVE Follow(tree, q)[Len(p)] = Target(tree, p)
  <2>1. Len(p) \in 0..Len(p)
    BY <1>1
  <2> QED BY <1>4, <2>1, FollowAbove DEF Target
<1>5. ASSUME NEW n \in Name
      PROVE  Target(tree, Append(p, n)) = Next1(tree, Target(tree, p), n)
  <2> DEFINE q == Append(p, n)
  <2>1. q \in Paths /\ Len(q) = Len(p) + 1 /\ Above(p, q) /\ q[Len(q)] = n
    BY <1>1, AboveAppend DEF Paths
  <2> HIDE DEF q
  <2>2. Len(q) \in 1..Len(q) /\ Len(q) - 1 = Len(p)
    BY <1>1, <2>1
  <2>3. Follow(tree, q)[Len(q)] = Next1(tree, Follow(tree, q)[Len(q) - 1], n)
    BY <2>1, <2>2, FollowIs
  <2> QED BY <1>4, <2>1, <2>2, <2>3 DEF Target, q
<1> QED BY <1>2, <1>3, <1>4, <1>5

LEMMA TreeType == ASSUME NEW g \in Config PROVE g.tree \in Trees /\ g.closed \subseteq Dirs
BY DEF Config, Trees, Nodes, Name

\* Directory by directory.
LEMMA WalkedIs ==
    ASSUME NEW g \in Config, NEW p \in Paths
    PROVE  Walked(g, p) <=>
               /\ \A i \in 0..Len(p) : Follow(g.tree, p)[i] \in Dirs \ g.closed
               /\ \A i \in 1..Len(p) : p[i] \notin ExcludedDirs
               /\ \A i, j \in 0..Len(p) : Follow(g.tree, p)[i] = Follow(g.tree, p)[j] => i = j
<1>1. DOMAIN Follow(g.tree, p) = 0..Len(p)
  BY FollowIs, TreeType
<1> QED BY <1>1 DEF Walked, IsInjective

\* What is above a path along which the walk goes is one, too.
LEMMA WalkedAbove ==
    ASSUME NEW g \in Config, NEW p \in Paths, NEW q \in Paths, Above(p, q), Walked(g, q)
    PROVE  Walked(g, p)
<1>1. /\ Len(p) \in Nat /\ Len(q) \in Nat
      /\ 0..Len(p) \subseteq 0..Len(q) /\ 1..Len(p) \subseteq 1..Len(q)
      /\ \A i \in 1..Len(p) : p[i] = q[i]
  BY DEF Above, Paths
<1>2. \A i \in 0..Len(p) : Follow(g.tree, p)[i] = Follow(g.tree, q)[i]
  BY FollowAbove, TreeType
<1> QED BY <1>1, <1>2, WalkedIs

\* The walk goes on from p to p/n.
DirsIn(g, p) == {n \in Name \ ExcludedDirs : Next1(g.tree, Target(g.tree, p), n) \in Dirs}
FilesIn(g, p) == {n \in Name \ ExcludedFiles : Next1(g.tree, Target(g.tree, p), n) \notin Dirs \cup {"none"}}

LEMMA WalkedStart ==
    ASSUME NEW g \in Config
    PROVE  Walked(g, <<>>) <=> Root \notin g.closed
<1>1. <<>> \in Paths /\ Len(<<>>) = 0 /\ 0..0 = {0}
  BY DEF Paths
<1>2. Follow(g.tree, <<>>)[0] = Root
  BY <1>1, FollowIs, TreeType
<1> QED BY <1>1, <1>2, WalkedIs, JarAssumption

LEMMA WalkedAppend ==
    ASSUME NEW g \in Config, NEW p \in Paths, NEW n \in Name
    PROVE  Walked(g, Append(p, n)) <=>
               /\ Walked(g, p) /\ n \in DirsIn(g, p)
               /\ Target(g.tree, Append(p, n)) \notin g.closed
               /\ \A i \in 0..Len(p) : Follow(g.tree, p)[i] # Target(g.tree, Append(p, n))
<1> DEFINE q == Append(p, n)
           f == Follow(g.tree, p)
           h == Follow(g.tree, q)
           l == Len(p)
           t == Target(g.tree, q)
<1>1. /\ l \in Nat /\ q \in Paths /\ Len(q) = l + 1 /\ q[l + 1] = n
      /\ \A i \in 1..l : q[i] = p[i]
      /\ 0..(l + 1) = (0..l) \cup {l + 1} /\ 1..(l + 1) = (1..l) \cup {l + 1}
      /\ l + 1 \notin 0..l
      /\ Above(p, q)
  BY AboveAppend DEF Paths
<1>2. \A i \in 0..l : h[i] = f[i]
  BY <1>1, FollowAbove, TreeType
<1>3. h[l + 1] = t
  BY <1>1 DEF Target
<1>4. t = Next1(g.tree, Target(g.tree, p), n)
  BY TargetIs, TreeType
<1>5. n \in DirsIn(g, p) <=> n \notin ExcludedDirs /\ t \in Dirs
  BY <1>4 DEF DirsIn
<1>6. Walked(g, q) <=> /\ \A i \in 0..(l + 1) : h[i] \in Dirs \ g.closed
                       /\ \A i \in 1..(l + 1) : q[i] \notin ExcludedDirs
                       /\ \A i, j \in 0..(l + 1) : h[i] = h[j] => i = j
  <2>1. q \in Paths /\ Len(q) = l + 1
    BY <1>1
  <2> HIDE DEF q, l
  <2>2. Walked(g, q) <=> /\ \A i \in 0..Len(q) : h[i] \in Dirs \ g.closed
                         /\ \A i \in 1..Len(q) : q[i] \notin ExcludedDirs
                         /\ \A i, j \in 0..Len(q) : h[i] = h[j] => i = j
    BY <2>1, WalkedIs
  <2> QED BY <2>1, <2>2
<1>7. Walked(g, p) <=> /\ \A i \in 0..l : f[i] \in Dirs \ g.closed
                       /\ \A i \in 1..l : p[i] \notin ExcludedDirs
                       /\ \A i, j \in 0..l : f[i] = f[j] => i = j
  BY WalkedIs
<1> HIDE DEF q, f, h, l, t
<1>8. (\A i \in 0..(l + 1) : h[i] \in Dirs \ g.closed) <=>
          (\A i \in 0..l : f[i] \in Dirs \ g.closed) /\ t \in Dirs /\ t \notin g.closed
  BY <1>1, <1>2, <1>3
<1>9. (\A i \in 1..(l + 1) : q[i] \notin ExcludedDirs) <=>
          (\A i \in 1..l : p[i] \notin ExcludedDirs) /\ n \notin ExcludedDirs
  BY <1>1
<1>10. (\A i, j \in 0..(l + 1) : h[i] = h[j] => i = j) <=>
          (\A i, j \in 0..l : f[i] = f[j] => i = j) /\ \A i \in 0..l : f[i] # t
  BY <1>1, <1>2, <1>3
<1> QED BY <1>5, <1>6, <1>7, <1>8, <1>9, <1>10 DEF q, f, l, t

-----------------------------------------------------------------------------
(* The walk.  S is the stack, V the paths visited, E the entries.          *)

Has(s, x) == \E i \in DOMAIN s : s[i] = x
Once(s) == \A i, j \in DOMAIN s : s[i] = s[j] => i = j

LEMMA ConcatHas ==
    ASSUME NEW X, NEW a \in Seq(X), NEW b \in Seq(X)
    PROVE  /\ a \o b \in Seq(X)
           /\ \A x : Has(a \o b, x) <=> Has(a, x) \/ Has(b, x)
           /\ Once(a) /\ Once(b) /\ (\A x : ~(Has(a, x) /\ Has(b, x))) => Once(a \o b)
           /\ Once(a \o b) => Once(a) /\ Once(b) /\ \A x : ~(Has(a, x) /\ Has(b, x))
<1>1. /\ a \o b \in Seq(X)
      /\ \A i \in DOMAIN a : i \in DOMAIN (a \o b) /\ (a \o b)[i] = a[i] /\ i <= Len(a)
      /\ \A i \in DOMAIN b : Len(a) + i \in DOMAIN (a \o b) /\ (a \o b)[Len(a) + i] = b[i] /\ i > 0
      /\ \A i \in DOMAIN (a \o b) : i \in DOMAIN a \/ (i - Len(a) \in DOMAIN b /\ i = Len(a) + (i - Len(a)))
      /\ Len(a) \in Nat /\ DOMAIN a \subseteq Nat /\ DOMAIN b \subseteq Nat
  OBVIOUS
<1> DEFINE c == a \o b
<1> HIDE DEF c
<1>2. \A x : Has(c, x) <=> Has(a, x) \/ Has(b, x)
  <2> TAKE x
  <2>1. Has(a, x) => Has(c, x)
    BY <1>1 DEF Has, c
  <2>2. Has(b, x) => Has(c, x)
    BY <1>1 DEF Has, c
  <2>3. ASSUME NEW i \in DOMAIN c, c[i] = x PROVE Has(a, x) \/ Has(b, x)
    <3>1. CASE i \in DOMAIN a
      BY <1>1, <2>3, <3>1 DEF Has, c
    <3>2. CASE i - Len(a) \in DOMAIN b /\ i = Len(a) + (i - Len(a))
      BY <1>1, <2>3, <3>2 DEF Has, c
    <3> QED BY <1>1, <3>1, <3>2 DEF c
  <2> QED BY <2>1, <2>2, <2>3 DEF Has
<1>3. ASSUME Once(a), Once(b), \A x : ~(Has(a, x) /\ Has(b, x)) PROVE Once(c)
  <2> SUFFICES ASSUME NEW i \in DOMAIN c, NEW j \in DOMAIN c, c[i] = c[j] PROVE i = j
    BY DEF Once
  <2>1. CASE i \in DOMAIN a /\ j \in DOMAIN a
    BY <1>1, <1>3, <2>1 DEF Once, c
  <2>2. CASE i \notin DOMAIN a /\ j \notin DOMAIN a
    <3>1. /\ i - Len(a) \in DOMAIN b /\ j - Len(a) \in DOMAIN b
          /\ b[i - Len(a)] = b[j - Len(a)]
          /\ i = Len(a) + (i - Len(a)) /\ j = Len(a) + (j - Len(a))
      BY <1>1, <2>2 DEF c
    <3>2. i - Len(a) = j - Len(a)
      BY <1>3, <3>1 DEF Once
    <3> QED BY <3>1, <3>2
  <2>3. CASE i \in DOMAIN a /\ j \notin DOMAIN a
    <3>1. c[i] = a[i] /\ c[j] = b[j - Len(a)] /\ j - Len(a) \in DOMAIN b
      BY <1>1, <2>3 DEF c
    <3>2. Has(a, c[i]) /\ Has(b, c[j])
      BY <2>3, <3>1 DEF Has
    <3> QED BY <1>3, <3>2
  <2>4. CASE i \notin DOMAIN a /\ j \in DOMAIN a
    <3>1. c[j] = a[j] /\ c[i] = b[i - Len(a)] /\ i - Len(a) \in DOMAIN b
      BY <1>1, <2>4 DEF c
    <3>2. Has(a, c[j]) /\ Has(b, c[i])
      BY <2>4, <3>1 DEF Has
    <3> QED BY <1>3, <3>2
  <2> QED BY <2>1, <2>2, <2>3, <2>4
<1>4. ASSUME Once(c) PROVE Once(a) /\ Once(b) /\ \A x : ~(Has(a, x) /\ Has(b, x))
  <2>1. Once(a)
    BY <1>1, <1>4 DEF Once, c
  <2>2. Once(b)
    <3> SUFFICES ASSUME NEW i \in DOMAIN b, NEW j \in DOMAIN b, b[i] = b[j] PROVE i = j
      BY DEF Once
    <3>1. Len(a) + i = Len(a) + j
      BY <1>1, <1>4 DEF Once, c
    <3> QED BY <1>1, <3>1
  <2>3. ASSUME NEW i \in DOMAIN a, NEW j \in DOMAIN b, a[i] = b[j] PROVE FALSE
    <3>1. i = Len(a) + j /\ i <= Len(a) /\ j > 0
      BY <1>1, <1>4, <2>3 DEF Once, c
    <3> QED BY <1>1, <3>1
  <2> QED BY <2>1, <2>2, <2>3 DEF Has
<1> QED BY <1>1, <1>2, <1>3, <1>4 DEF c

LEMMA HeadTailHas ==
    ASSUME NEW X, NEW s \in Seq(X), s # <<>>
    PROVE  /\ Head(s) \in X /\ Tail(s) \in Seq(X)
           /\ \A x : Has(s, x) <=> x = Head(s) \/ Has(Tail(s), x)
           /\ Once(s) => Once(Tail(s)) /\ ~Has(Tail(s), Head(s))
<1>1. /\ Head(s) = s[1] /\ 1 \in DOMAIN s
      /\ \A i \in DOMAIN Tail(s) : i + 1 \in DOMAIN s /\ Tail(s)[i] = s[i + 1] /\ i + 1 # 1
      /\ \A i \in DOMAIN s : i # 1 => i - 1 \in DOMAIN Tail(s) /\ Tail(s)[i - 1] = s[i]
      /\ DOMAIN Tail(s) \subseteq Nat
  OBVIOUS
<1>2. Head(s) \in X /\ Tail(s) \in Seq(X)
  OBVIOUS
<1>3. \A x : Has(s, x) <=> x = Head(s) \/ Has(Tail(s), x)
  <2> TAKE x
  <2>1. x = Head(s) => Has(s, x)
    BY <1>1 DEF Has
  <2>2. Has(Tail(s), x) => Has(s, x)
    BY <1>1 DEF Has
  <2>3. ASSUME NEW i \in DOMAIN s, s[i] = x PROVE x = Head(s) \/ Has(Tail(s), x)
    BY <1>1, <2>3 DEF Has
  <2> QED BY <2>1, <2>2, <2>3 DEF Has
<1>4. ASSUME Once(s) PROVE Once(Tail(s)) /\ ~Has(Tail(s), Head(s))
  <2>1. ASSUME NEW i \in DOMAIN Tail(s), NEW j \in DOMAIN Tail(s), Tail(s)[i] = Tail(s)[j]
        PROVE  i = j
    <3>1. i + 1 = j + 1
      BY <1>1, <1>4, <2>1 DEF Once
    <3> QED BY <1>1, <3>1
  <2>2. ~Has(Tail(s), Head(s))
    BY <1>1, <1>4 DEF Has, Once
  <2> QED BY <2>1, <2>2 DEF Once
<1> QED BY <1>2, <1>3, <1>4

\* The entries of a directory, sorted.
LEMMA UnderIs ==
    ASSUME NEW p \in Paths, NEW T, T \subseteq Name
    PROVE  LET u == Under(p, Sorted(T))
           IN  /\ u \in Seq(Paths)
               /\ \A x : Has(u, x) <=> \E n \in T : x = Append(p, n)
               /\ Once(u)
<1> DEFINE s == Sorted(T)
           u == Under(p, s)
<1>1. /\ s \in Seq(Name) /\ \A t : Has(s, t) <=> t \in T
      /\ Once(s)
  BY SortedIs DEF Has, Once
<1> HIDE DEF s
<1>2. \A i \in DOMAIN s : s[i] \in Name /\ Append(p, s[i]) \in Paths
  BY <1>1, AboveAppend
<1>3. u \in Seq(Paths) /\ DOMAIN u = DOMAIN s /\ \A i \in DOMAIN s : u[i] = Append(p, s[i])
  <2>1. u = [i \in DOMAIN s |-> Append(p, s[i])]
    BY DEF Under
  <2>2. DOMAIN s = 1..Len(s) /\ Len(s) \in Nat
    BY <1>1
  <2> QED BY <1>2, <2>1, <2>2
<1>4. \A x : Has(u, x) <=> \E n \in T : x = Append(p, n)
  BY <1>1, <1>3 DEF Has
<1>5. Once(u)
  <2> SUFFICES ASSUME NEW i \in DOMAIN s, NEW j \in DOMAIN s, Append(p, s[i]) = Append(p, s[j])
               PROVE  i = j
    BY <1>3 DEF Once
  <2>1. s[i] = s[j]
    BY <1>2, AboveAppend
  <2> QED BY <1>1, <2>1 DEF Once
<1> QED BY <1>3, <1>4, <1>5 DEF s

\* A path the walk comes to: the root, or a directory in one it goes along.
Pushed(g, p) == p = <<>> \/ \E q \in Paths : Walked(g, q) /\ \E n \in DirsIn(g, q) : p = Append(q, n)

LEMMA PushedIs ==
    ASSUME NEW g \in Config, NEW p \in Paths, Pushed(g, p)
    PROVE  /\ Target(g.tree, p) \in Dirs
           /\ Walked(g, p) <=> /\ Target(g.tree, p) \notin g.closed
                               /\ \A i \in 0..(Len(p) - 1) : Follow(g.tree, p)[i] # Target(g.tree, p)
<1>1. CASE p = <<>>
  <2>1. Len(p) = 0 /\ 0..(0 - 1) = {} /\ Target(g.tree, p) = Root
    BY <1>1, TargetIs, TreeType
  <2> QED BY <1>1, <2>1, WalkedStart, JarAssumption
<1>2. ASSUME NEW q \in Paths, Walked(g, q), NEW n \in DirsIn(g, q), p = Append(q, n)
      PROVE  /\ Target(g.tree, p) \in Dirs
             /\ Walked(g, p) <=> /\ Target(g.tree, p) \notin g.closed
                                 /\ \A i \in 0..(Len(p) - 1) : Follow(g.tree, p)[i] # Target(g.tree, p)
  <2>1. n \in Name
    BY DEF DirsIn
  <2>2. Len(p) - 1 = Len(q) /\ Above(q, p) /\ Len(q) \in Nat
    BY <1>2, <2>1, AboveAppend DEF Paths
  <2>3. \A i \in 0..Len(q) : Follow(g.tree, p)[i] = Follow(g.tree, q)[i]
    BY <2>2, FollowAbove, TreeType
  <2>4. Target(g.tree, p) \in Dirs
    BY <1>2, <2>1, TargetIs, TreeType DEF DirsIn
  <2> QED BY <1>2, <2>1, <2>2, <2>3, <2>4, WalkedAppend
<1> QED BY <1>1, <1>2 DEF Pushed

\* What is on the stack can be come to, and its parents have been visited.
Stacked(g, S, V) == \A s \in Paths : Has(S, s) =>
                        Pushed(g, s) /\ \A p \in Paths : Above(p, s) /\ p # s => p \in V

\* Nothing on the stack is below another path on it, nor above one visited.
Apart(S, V) == /\ Once(S)
               /\ \A s, t \in Paths : Has(S, s) /\ Has(S, t) /\ Above(s, t) => s = t
               /\ \A s \in Paths, v \in V : Has(S, s) => ~Above(s, v)

\* What has not been visited is below a path on the stack.
Covered(g, S, V) == \A p \in Paths : Walked(g, p) =>
                        p \in V \/ \E s \in Paths : Has(S, s) /\ Above(s, p)

\* The entries are the files in what has been visited, once each.
Listed(g, V, E) == /\ \A e : Has(E, e) <=> \E p \in V : Walked(g, p) /\ \E m \in FilesIn(g, p) : e = Append(p, m)
                   /\ Once(E)

WalkInv(g, S, V, E) == /\ S \in Seq(Paths) /\ V \subseteq Paths /\ E \in Seq(Paths)
                       /\ \A v \in V : Pushed(g, v)
                       /\ Stacked(g, S, V) /\ Apart(S, V) /\ Covered(g, S, V) /\ Listed(g, V, E)

LEMMA WalkStarts == ASSUME NEW g \in Config PROVE WalkInv(g, << <<>> >>, {}, <<>>)
<1> DEFINE S == << <<>> >>
<1>1. <<>> \in Paths
  BY DEF Paths
<1>2. S \in Seq(Paths) /\ <<>> \in Seq(Paths) /\ \A s : Has(S, s) <=> s = <<>>
  BY <1>1 DEF Has
<1>3. Once(S) /\ Once(<<>>) /\ \A e : ~Has(<<>>, e)
  BY DEF Once, Has
<1> HIDE DEF S
<1>4. Stacked(g, S, {})
  <2>1. \A p \in Paths : Above(p, <<>>) => p = <<>>
    BY <1>1, AboveFacts
  <2> QED BY <1>2, <2>1 DEF Stacked, Pushed
<1>5. Apart(S, {})
  BY <1>2, <1>3 DEF Apart
<1>6. Covered(g, S, {})
  <2>1. \A p \in Paths : Above(<<>>, p)
    BY <1>1, AboveFacts
  <2> QED BY <1>1, <1>2, <2>1 DEF Covered
<1>7. Listed(g, {}, <<>>)
  BY <1>3 DEF Listed
<1> QED BY <1>2, <1>4, <1>5, <1>6, <1>7 DEF WalkInv, S

\* A directory that is passed over: it cannot be listed, or contains itself.
LEMMA PassKeeps ==
    ASSUME NEW g \in Config, NEW S, NEW V, NEW E, WalkInv(g, S, V, E), S # <<>>,
           ~Walked(g, Head(S)), NEW W, W = V \/ W = V \cup {Head(S)}
    PROVE  WalkInv(g, Tail(S), W, E)
<1> DEFINE path == Head(S)
           T == Tail(S)
<1>1. /\ S \in Seq(Paths) /\ V \subseteq Paths /\ E \in Seq(Paths)
      /\ Stacked(g, S, V) /\ Apart(S, V) /\ Covered(g, S, V) /\ Listed(g, V, E)
  BY DEF WalkInv
<1>2. /\ path \in Paths /\ T \in Seq(Paths) /\ Once(T) /\ ~Has(T, path)
      /\ \A s : Has(S, s) <=> s = path \/ Has(T, s)
  BY <1>1, HeadTailHas DEF Apart
<1> HIDE DEF path, T
<1>3. Stacked(g, T, W)
  BY <1>1, <1>2 DEF Stacked, path
<1>4. Apart(T, W)
  <2>1. \A s \in Paths, v \in W : Has(T, s) => ~Above(s, v)
    BY <1>1, <1>2 DEF Apart, path
  <2> QED BY <1>1, <1>2, <2>1 DEF Apart
<1>5. Covered(g, T, W)
  <2> SUFFICES ASSUME NEW p \in Paths, Walked(g, p), p \notin W
               PROVE  \E s \in Paths : Has(T, s) /\ Above(s, p)
    BY DEF Covered
  <2>1. PICK s \in Paths : Has(S, s) /\ Above(s, p)
    BY <1>1 DEF Covered
  <2>2. s # path
    BY <1>2, <2>1, WalkedAbove DEF path
  <2> QED BY <1>2, <2>1, <2>2
<1>6. Listed(g, W, E)
  <2>1. \A p \in W : Walked(g, p) => p \in V
    BY DEF path
  <2>2. V \subseteq W
    OBVIOUS
  <2> QED BY <1>1, <2>1, <2>2 DEF Listed
<1>7. W \subseteq Paths
  BY <1>1, <1>2 DEF path
<1>8. \A v \in W : Pushed(g, v)
  BY <1>1, <1>2 DEF WalkInv, Stacked, path
<1> QED BY <1>1, <1>2, <1>3, <1>4, <1>5, <1>6, <1>7, <1>8 DEF WalkInv, T

\* A directory whose entries are found.
LEMMA EnterKeeps ==
    ASSUME NEW g \in Config, NEW S, NEW V, NEW E, WalkInv(g, S, V, E), S # <<>>,
           Walked(g, Head(S))
    PROVE  WalkInv(g, Under(Head(S), Sorted(DirsIn(g, Head(S)))) \o Tail(S), V \cup {Head(S)},
                   E \o Under(Head(S), Sorted(FilesIn(g, Head(S)))))
<1> DEFINE path == Head(S)
           T == Tail(S)
           K == Under(path, Sorted(DirsIn(g, path)))
           F == Under(path, Sorted(FilesIn(g, path)))
           Z == K \o T
           W == V \cup {path}
<1>1. /\ S \in Seq(Paths) /\ V \subseteq Paths /\ E \in Seq(Paths)
      /\ Stacked(g, S, V) /\ Apart(S, V) /\ Covered(g, S, V) /\ Listed(g, V, E)
  BY DEF WalkInv
<1>2. /\ path \in Paths /\ T \in Seq(Paths) /\ Once(T) /\ ~Has(T, path)
      /\ \A s : Has(S, s) <=> s = path \/ Has(T, s)
  BY <1>1, HeadTailHas DEF Apart
<1>3. DirsIn(g, path) \subseteq Name /\ FilesIn(g, path) \subseteq Name
  BY DEF DirsIn, FilesIn
<1> HIDE DEF path, T
<1>4. /\ K \in Seq(Paths) /\ Once(K)
      /\ \A s : Has(K, s) <=> \E n \in DirsIn(g, path) : s = Append(path, n)
  BY <1>2, <1>3, UnderIs
<1>5. /\ F \in Seq(Paths) /\ Once(F)
      /\ \A s : Has(F, s) <=> \E m \in FilesIn(g, path) : s = Append(path, m)
  BY <1>2, <1>3, UnderIs
<1> HIDE DEF K, F
\* A path on the rest of the stack is neither above nor below this one.
<1>6. \A s \in Paths : Has(T, s) => ~Above(s, path) /\ ~Above(path, s)
  BY <1>1, <1>2 DEF Apart
<1>7. \A n \in DirsIn(g, path) : /\ n \in Name /\ Append(path, n) \in Paths
                                 /\ Above(path, Append(path, n)) /\ ~Above(Append(path, n), path)
                                 /\ \A s \in Paths : Above(s, Append(path, n)) => Above(s, path) \/ s = Append(path, n)
                                 /\ \A s \in Paths : Above(Append(path, n), s) => Above(path, s)
  BY <1>2, <1>3, AboveAppend
<1>8. Z \in Seq(Paths) /\ \A s : Has(Z, s) <=> Has(K, s) \/ Has(T, s)
  BY <1>2, <1>4, ConcatHas
<1>9. Once(Z)
  <2>1. \A s : ~(Has(K, s) /\ Has(T, s))
    BY <1>4, <1>6, <1>7
  <2> QED BY <1>2, <1>4, <2>1, ConcatHas
<1> HIDE DEF Z
<1>10. Stacked(g, Z, W)
  <2> SUFFICES ASSUME NEW s \in Paths, Has(Z, s)
               PROVE  Pushed(g, s) /\ \A p \in Paths : Above(p, s) /\ p # s => p \in W
    BY DEF Stacked
  <2>1. CASE Has(T, s)
    BY <1>1, <1>2, <2>1 DEF Stacked
  <2>2. ASSUME NEW n \in DirsIn(g, path), s = Append(path, n)
        PROVE  Pushed(g, s) /\ \A p \in Paths : Above(p, s) /\ p # s => p \in W
    <3>1. Pushed(g, s)
      BY <1>2, <2>2 DEF Pushed, path
    <3>2. \A p \in Paths : Above(p, s) /\ p # s => p \in W
      <4>1. \A p \in Paths : Above(p, path) /\ p # path => p \in V
        BY <1>1, <1>2 DEF Stacked
      <4> QED BY <1>7, <2>2, <4>1
    <3> QED BY <3>1, <3>2
  <2> QED BY <1>4, <1>8, <2>1, <2>2
<1>11. Apart(Z, W)
  <2>1. ASSUME NEW s \in Paths, NEW t \in Paths, Has(Z, s), Has(Z, t), Above(s, t) PROVE s = t
    <3>1. CASE Has(T, s) /\ Has(T, t)
      BY <1>1, <1>2, <2>1, <3>1 DEF Apart
    <3>2. CASE Has(T, s) /\ Has(K, t)
      <4>1. PICK n \in DirsIn(g, path) : t = Append(path, n)
        BY <1>4, <3>2
      <4>2. Above(s, path) \/ s = t
        BY <1>7, <2>1, <4>1
      <4> QED BY <1>6, <3>2, <4>2
    <3>3. CASE Has(K, s) /\ Has(T, t)
      <4>1. PICK n \in DirsIn(g, path) : s = Append(path, n)
        BY <1>4, <3>3
      <4>2. Above(path, t)
        BY <1>7, <2>1, <4>1
      <4> QED BY <1>6, <3>3, <4>2
    <3>4. CASE Has(K, s) /\ Has(K, t)
      <4>1. PICK n \in DirsIn(g, path) : s = Append(path, n)
        BY <1>4, <3>4
      <4>2. PICK m \in DirsIn(g, path) : t = Append(path, m)
        BY <1>4, <3>4
      <4> QED BY <1>7, <2>1, <4>1, <4>2
    <3> QED BY <1>8, <2>1, <3>1, <3>2, <3>3, <3>4
  <2>2. ASSUME NEW s \in Paths, NEW v \in W, Has(Z, s) PROVE ~Above(s, v)
    <3>1. CASE v \in V
      <4>1. Has(T, s) => ~Above(s, v)
        BY <1>1, <1>2, <3>1 DEF Apart
      <4>2. ~Above(path, v)
        BY <1>1, <1>2, <3>1 DEF Apart
      <4>3. ASSUME NEW n \in DirsIn(g, path), s = Append(path, n), Above(s, v) PROVE FALSE
        <5>1. v \in Paths
          BY <1>1, <3>1
        <5>2. Above(path, v)
          BY <1>7, <4>3, <5>1
        <5> QED BY <4>2, <5>2
      <4> QED BY <1>4, <1>8, <2>2, <4>1, <4>3
    <3>2. CASE v = path
      BY <1>4, <1>6, <1>7, <1>8, <2>2, <3>2
    <3> QED BY <2>2, <3>1, <3>2
  <2> QED BY <1>9, <2>1, <2>2 DEF Apart
<1>12. Covered(g, Z, W)
  <2> SUFFICES ASSUME NEW p \in Paths, Walked(g, p), p \notin W
               PROVE  \E s \in Paths : Has(Z, s) /\ Above(s, p)
    BY DEF Covered
  <2>1. PICK s \in Paths : Has(S, s) /\ Above(s, p)
    BY <1>1 DEF Covered
  <2>2. CASE s = path
    <3> DEFINE n == p[Len(path) + 1]
               q == Append(path, n)
    <3>0. path # p /\ Above(path, p)
      BY <2>1, <2>2
    <3>1. n \in Name /\ Above(q, p) /\ q \in Paths
      <4>1. n \in Name /\ Above(q, p)
        BY <1>2, <3>0, AboveFacts
      <4> QED BY <1>2, <4>1, AboveAppend
    <3>2. Walked(g, q)
      BY <3>1, WalkedAbove
    <3>3. n \in DirsIn(g, path)
      BY <1>2, <3>1, <3>2, WalkedAppend
    <3> QED BY <1>4, <1>8, <3>1, <3>3
  <2>3. CASE s # path
    BY <1>2, <1>8, <2>1, <2>3
  <2> QED BY <2>2, <2>3
<1>13. Listed(g, W, E \o F)
  <2>1. \A x : Has(E \o F, x) <=> Has(E, x) \/ Has(F, x)
    BY <1>1, <1>5, ConcatHas
  <2>2. path \notin V
    <3>1. Above(path, path)
      BY <1>2, AboveFacts
    <3> QED BY <1>1, <1>2, <3>1 DEF Apart
  <2>3. \A x : ~(Has(E, x) /\ Has(F, x))
    <3> SUFFICES ASSUME NEW x, Has(E, x), Has(F, x) PROVE FALSE
      OBVIOUS
    <3>1. PICK p \in V : \E m \in FilesIn(g, p) : x = Append(p, m)
      BY <1>1 DEF Listed
    <3>2. PICK m \in FilesIn(g, p) : x = Append(p, m)
      BY <3>1
    <3>3. PICK n \in FilesIn(g, path) : x = Append(path, n)
      BY <1>5
    <3>4. p = path
      <4>1. p \in Paths /\ m \in Name /\ n \in Name
        BY <1>1, <1>3 DEF FilesIn
      <4> HIDE DEF Paths, Name
      <4>2. \A k : Append(p, m) = Append(path, k) => p = path
        BY <1>2, <4>1, AboveAppend
      <4> QED BY <3>2, <3>3, <4>2
    <3> QED BY <2>2, <3>4
  <2>4. Once(E \o F)
    BY <1>1, <1>5, <2>3, ConcatHas DEF Listed
  <2>5. ASSUME NEW e
        PROVE  Has(E \o F, e) <=> \E p \in W : Walked(g, p) /\ \E m \in FilesIn(g, p) : e = Append(p, m)
    <3>1. Has(E, e) <=> \E p \in V : Walked(g, p) /\ \E m \in FilesIn(g, p) : e = Append(p, m)
      BY <1>1 DEF Listed
    <3>2. Has(F, e) <=> Walked(g, path) /\ \E m \in FilesIn(g, path) : e = Append(path, m)
      BY <1>5 DEF path
    <3> QED BY <2>1, <3>1, <3>2
  <2> QED BY <2>4, <2>5 DEF Listed
<1>14. W \subseteq Paths /\ E \o F \in Seq(Paths)
  BY <1>1, <1>2, <1>5
<1>15. \A v \in W : Pushed(g, v)
  BY <1>1, <1>2 DEF WalkInv, Stacked
<1>16. WalkInv(g, Z, W, E \o F)
  BY <1>8, <1>10, <1>11, <1>12, <1>13, <1>14, <1>15 DEF WalkInv
<1> QED BY <1>16 DEF Z, K, F, T, path

-----------------------------------------------------------------------------
(* What Visit does to the walk of a command.                               *)

VisitS(g, S) == IF Walked(g, Head(S)) THEN Under(Head(S), Sorted(DirsIn(g, Head(S)))) \o Tail(S) ELSE Tail(S)
VisitV(g, S, V) == IF Target(g.tree, Head(S)) \in g.closed THEN V ELSE V \cup {Head(S)}
VisitE(g, S, E) == IF Walked(g, Head(S)) THEN E \o Under(Head(S), Sorted(FilesIn(g, Head(S)))) ELSE E

LEMMA VisitKeeps ==
    ASSUME NEW g \in Config, NEW S, NEW V, NEW E, WalkInv(g, S, V, E), S # <<>>
    PROVE  WalkInv(g, VisitS(g, S), VisitV(g, S, V), VisitE(g, S, E))
<1>1. CASE Walked(g, Head(S))
  <2>1. Target(g.tree, Head(S)) \notin g.closed
    <3>1. Head(S) \in Paths
      BY HeadTailHas DEF WalkInv
    <3>2. Len(Head(S)) \in 0..Len(Head(S))
      BY <3>1 DEF Paths
    <3> QED BY <1>1, <3>1, <3>2, WalkedIs DEF Target
  <2> QED BY <1>1, <2>1, EnterKeeps DEF VisitS, VisitV, VisitE
<1>2. CASE ~Walked(g, Head(S))
  BY <1>2, PassKeeps DEF VisitS, VisitV, VisitE
<1> QED BY <1>1, <1>2

\* A directory contains itself if the way to it leads through it.
LEMMA LoopIs ==
    ASSUME conf \in Config, NEW path \in Paths, NEW V, V \subseteq Paths,
           \A p \in Paths : Above(p, path) /\ p # path => p \in V
    PROVE  ContainsItself(path, V \cup {path}) <=>
               \E i \in 0..(Len(path) - 1) : Follow(conf.tree, path)[i] = Target(conf.tree, path)
<1>1. ASSUME NEW i \in 0..(Len(path) - 1)
      PROVE  LET up == SubSeq(path, 1, i)
             IN up \in V \cup {path} /\ At(up) = Follow(conf.tree, path)[i]
  <2> DEFINE up == SubSeq(path, 1, i)
  <2>1. i \in 0..Len(path) /\ i # Len(path)
    BY DEF Paths
  <2>2. up \in Paths /\ Len(up) = i /\ Above(up, path)
    BY <2>1, AboveFacts
  <2>3. up # path
    BY <2>1, <2>2
  <2> HIDE DEF up
  <2>4. up \in V
    BY <2>2, <2>3
  <2>5. At(up) = Follow(conf.tree, path)[i]
    BY <2>2, TargetIs, TreeType DEF At, Target
  <2> QED BY <2>4, <2>5 DEF up
<1>2. At(path) = Target(conf.tree, path)
  BY DEF At, Target
<1> QED BY <1>1, <1>2 DEF ContainsItself

LEMMA EntriesAre ==
    ASSUME conf \in Config, NEW path \in Paths, Target(conf.tree, path) \in Dirs
    PROVE  SubDirs(path) \ ExcludedDirs = DirsIn(conf, path) /\ Files(path) = FilesIn(conf, path)
<1>1. At(path) = Target(conf.tree, path)
  BY DEF At, Target
<1>2. \A n \in Name : /\ At(Append(path, n)) = conf.tree[At(path)][n]
                      /\ Next1(conf.tree, Target(conf.tree, path), n) = conf.tree[At(path)][n]
  <2> SUFFICES ASSUME NEW n \in Name
               PROVE  /\ At(Append(path, n)) = Next1(conf.tree, Target(conf.tree, path), n)
                      /\ Next1(conf.tree, Target(conf.tree, path), n) = conf.tree[At(path)][n]
    OBVIOUS
  <2>1. At(Append(path, n)) = Target(conf.tree, Append(path, n))
    BY DEF At, Target
  <2>2. Target(conf.tree, Append(path, n)) = Next1(conf.tree, Target(conf.tree, path), n)
    BY TargetIs, TreeType
  <2> QED BY <1>1, <2>1, <2>2 DEF Next1
<1>3. "none" \notin Dirs
  BY JarAssumption DEF Leaves
<1> QED BY <1>2, <1>3 DEF SubDirs, Files, Found, IsDir, DirsIn, FilesIn, Name

LEMMA VisitIs ==
    ASSUME NEW c \in Commands, Visit(c), conf \in Config,
           WalkInv(conf, stack[c], paths[c], entries[c])
    PROVE  /\ stack[c] # <<>>
           /\ stack' = [stack EXCEPT ![c] = VisitS(conf, stack[c])]
           /\ paths' = [paths EXCEPT ![c] = VisitV(conf, stack[c], paths[c])]
           /\ entries' = [entries EXCEPT ![c] = VisitE(conf, stack[c], entries[c])]
<1> DEFINE path == Head(stack[c])
           pruned == At(path) \in conf.closed \/ ContainsItself(path, paths[c] \cup {path})
<1>1. stack[c] # <<>>
  BY DEF Visit
<1>2. path \in Paths /\ Has(stack[c], path)
  BY <1>1, HeadTailHas DEF WalkInv
<1>3. Pushed(conf, path) /\ \A p \in Paths : Above(p, path) /\ p # path => p \in paths[c]
  BY <1>2 DEF WalkInv, Stacked
<1>4. Target(conf.tree, path) \in Dirs /\ At(path) = Target(conf.tree, path)
  BY <1>2, <1>3, PushedIs DEF At, Target
<1>5. pruned <=> ~Walked(conf, path)
  BY <1>2, <1>3, <1>4, PushedIs, LoopIs DEF WalkInv
<1>6. SubDirs(path) \ ExcludedDirs = DirsIn(conf, path) /\ Files(path) = FilesIn(conf, path)
  BY <1>2, <1>4, EntriesAre
<1>7. /\ stack' = [stack EXCEPT ![c] = IF pruned THEN Tail(stack[c])
                        ELSE Under(path, Sorted(SubDirs(path) \ ExcludedDirs)) \o Tail(stack[c])]
      /\ paths' = [paths EXCEPT ![c] = IF At(path) \in conf.closed THEN paths[c] ELSE paths[c] \cup {path}]
      /\ entries' = [entries EXCEPT ![c] = IF pruned THEN entries[c]
                                           ELSE entries[c] \o Under(path, Sorted(Files(path)))]
  BY DEF Visit
<1> HIDE DEF path, pruned
<1>8. /\ VisitS(conf, stack[c]) = IF pruned THEN Tail(stack[c])
                        ELSE Under(path, Sorted(SubDirs(path) \ ExcludedDirs)) \o Tail(stack[c])
      /\ VisitV(conf, stack[c], paths[c]) = IF At(path) \in conf.closed THEN paths[c] ELSE paths[c] \cup {path}
      /\ VisitE(conf, stack[c], entries[c]) = IF pruned THEN entries[c]
                                           ELSE entries[c] \o Under(path, Sorted(Files(path)))
  BY <1>4, <1>5, <1>6 DEF VisitS, VisitV, VisitE, path
<1> QED BY <1>1, <1>7, <1>8


\* No directory is met twice on the way, so there are no more on it than there are.
LEMMA WalkedIsShort ==
    ASSUME NEW g \in Config, NEW p \in Paths, Walked(g, p)
    PROVE  Len(p) + 1 <= Cardinality(Dirs) /\ Cardinality(Dirs) \in Nat
<1> DEFINE f == Follow(g.tree, p)
           I == 0..Len(p)
<1>1. f \in [I -> Nodes]
  BY FollowIs, TreeType
<1>2. /\ \A i \in I : f[i] \in Dirs
      /\ \A i, j \in I : f[i] = f[j] => i = j
  BY WalkedIs
<1>3. Len(p) \in Nat
  BY DEF Paths
<1>4. IsFiniteSet(I) /\ Cardinality(I) = Len(p) + 1
  BY <1>3, FS_Interval
<1>5. IsFiniteSet(Dirs) /\ Cardinality(Dirs) \in Nat
  BY JarAssumption, FS_CardinalityType
<1> HIDE DEF f, I
<1>6. f \in [I -> Dirs]
  BY <1>1, <1>2
<1>7. ~(Cardinality(Dirs) < Cardinality(I))
  BY <1>2, <1>4, <1>5, <1>6, FS_PigeonHole
<1> QED BY <1>3, <1>4, <1>5, <1>7

\* And one more, at most, on a path that is only come to.
LEMMA PushedIsShort ==
    ASSUME NEW g \in Config, NEW p \in Paths, Pushed(g, p)
    PROVE  Len(p) <= Cardinality(Dirs)
<1>1. CASE p = <<>>
  <2>1. Cardinality(Dirs) \in Nat
    BY JarAssumption, FS_CardinalityType
  <2> QED BY <1>1, <2>1
<1>2. ASSUME NEW q \in Paths, Walked(g, q), NEW n \in DirsIn(g, q), p = Append(q, n)
      PROVE  Len(p) <= Cardinality(Dirs)
  <2>1. n \in Name
    BY DEF DirsIn
  <2>2. Len(p) = Len(q) + 1
    BY <1>2, <2>1, AboveAppend
  <2> QED BY <1>2, <2>2, WalkedIsShort
<1> QED BY <1>1, <1>2 DEF Pushed

LEMMA PackagedIs ==
    ASSUME conf \in Config, NEW e
    PROVE  e \in Packaged <=> \E p \in Paths : Walked(conf, p) /\ \E m \in FilesIn(conf, p) : e = Append(p, m)
<1> DEFINE Short == BoundedSeq(Name, Cardinality(Dirs) - 1)
<1>1. Short \subseteq Paths
  BY DEF BoundedSeq, SeqOf, Paths
<1>2. ASSUME NEW p \in Paths, Walked(conf, p) PROVE p \in Short
  <2>1. Len(p) \in Nat /\ p \in [1..Len(p) -> Name] /\ Len(p) \in 0..(Cardinality(Dirs) - 1)
    BY <1>2, WalkedIsShort DEF Paths
  <2> QED BY <2>1 DEF BoundedSeq, SeqOf
<1>3. ASSUME NEW p \in Paths, Walked(conf, p) PROVE Files(p) = FilesIn(conf, p)
  <2>1. Len(p) \in 0..Len(p)
    BY DEF Paths
  <2>2. Target(conf.tree, p) \in Dirs
    BY <1>3, <2>1, WalkedIs DEF Target
  <2> QED BY <2>2, EntriesAre
<1>4. e \in Packaged <=> \E p \in Short : Walked(conf, p) /\ \E m \in Files(p) : e = Append(p, m)
  BY DEF Packaged, Name
<1> HIDE DEF Short
<1> QED BY <1>1, <1>2, <1>3, <1>4

\* When nothing is left on the stack, every file has been listed.
LEMMA WalkedAll ==
    ASSUME conf \in Config, NEW V, NEW E, WalkInv(conf, <<>>, V, E)
    PROVE  ToSet(E) = Packaged /\ Once(E)
<1>1. \A s : ~Has(<<>>, s)
  BY DEF Has
<1>2. \A p \in Paths : Walked(conf, p) => p \in V
  BY <1>1 DEF WalkInv, Covered
<1>3. V \subseteq Paths /\ Once(E)
  BY DEF WalkInv, Listed
<1>4. \A e : Has(E, e) <=> e \in Packaged
  <2> TAKE e
  <2>1. Has(E, e) <=> \E p \in V : Walked(conf, p) /\ \E m \in FilesIn(conf, p) : e = Append(p, m)
    BY DEF WalkInv, Listed
  <2> QED BY <1>2, <1>3, <2>1, PackagedIs
<1>5. \A e : e \in ToSet(E) <=> Has(E, e)
  BY DEF ToSet, Has
<1> QED BY <1>3, <1>4, <1>5

\* The walk is the same for all commands: g is walked step by step from Start.
Start == << << <<>> >>, {}, <<>> >>
After(g, w) == <<VisitS(g, w[1]), VisitV(g, w[1], w[2]), VisitE(g, w[1], w[3])>>
Trace(g, tr, n) == tr[0] = Start /\ \A i \in 1..n : tr[i - 1][1] # <<>> /\ tr[i] = After(g, tr[i - 1])
Reached(g, w) == \E n \in Nat : \E tr : Trace(g, tr, n) /\ tr[n] = w

LEMMA StartReached == ASSUME NEW g PROVE Reached(g, Start)
<1> DEFINE tr == [i \in 0..0 |-> Start]
<1>1. Trace(g, tr, 0) /\ tr[0] = Start
  BY DEF Trace
<1> QED BY <1>1 DEF Reached

LEMMA AfterReached ==
    ASSUME NEW g, NEW w, Reached(g, w), w[1] # <<>>
    PROVE  Reached(g, After(g, w))
<1>1. PICK n \in Nat : \E tr : Trace(g, tr, n) /\ tr[n] = w
  BY DEF Reached
<1>2. PICK tr : Trace(g, tr, n) /\ tr[n] = w
  BY <1>1
<1> DEFINE us == [i \in 0..(n + 1) |-> IF i = n + 1 THEN After(g, w) ELSE tr[i]]
<1>3. us[n + 1] = After(g, w) /\ \A i \in 0..n : us[i] = tr[i]
  OBVIOUS
<1> HIDE DEF us
<1>4. Trace(g, us, n + 1)
  <2>1. us[0] = Start
    BY <1>2, <1>3 DEF Trace
  <2>2. ASSUME NEW i \in 1..(n + 1) PROVE us[i - 1][1] # <<>> /\ us[i] = After(g, us[i - 1])
    <3>1. CASE i = n + 1
      <4>1. i - 1 = n /\ n \in 0..n
        BY <3>1
      <4> QED BY <1>2, <1>3, <3>1, <4>1
    <3>2. CASE i # n + 1
      <4>1. i \in 1..n /\ i - 1 \in 0..n /\ i \in 0..n
        BY <3>2
      <4> QED BY <1>2, <1>3, <4>1 DEF Trace
    <3> QED BY <3>1, <3>2
  <2> QED BY <2>1, <2>2 DEF Trace
<1> QED BY <1>3, <1>4 DEF Reached

LEMMA TracesAgree ==
    ASSUME NEW g, NEW n \in Nat, NEW m \in Nat, n <= m,
           NEW tr, NEW us, Trace(g, tr, n), Trace(g, us, m)
    PROVE  tr[n] = us[n] /\ (tr[n][1] = <<>> => n = m)
<1> DEFINE Bad == {i \in 0..n : tr[i] # us[i]}
<1>1. n \notin Bad
  <2> SUFFICES ASSUME Bad # {} PROVE FALSE
    OBVIOUS
  <2>1. PICK i \in Bad : \A j \in Bad : i <= j
    <3>1. Bad \subseteq Nat
      OBVIOUS
    <3> HIDE DEF Bad
    <3> QED BY <3>1, LeastNat
  <2>2. i # 0
    BY <2>1 DEF Trace
  <2>3. i \in 1..n /\ i \in 1..m /\ i - 1 \in 0..n /\ i \in Nat
    BY <2>1, <2>2
  <2>4. i - 1 \notin Bad
    <3> HIDE DEF Bad
    <3> QED BY <2>1, <2>3
  <2>5. tr[i - 1] = us[i - 1]
    BY <2>3, <2>4
  <2>6. tr[i] = us[i]
    BY <2>3, <2>5 DEF Trace
  <2> QED BY <2>1, <2>6
<1>2. tr[n] = us[n]
  BY <1>1
<1>3. ASSUME tr[n][1] = <<>>, n # m PROVE FALSE
  <2>1. n + 1 \in 1..m /\ (n + 1) - 1 = n
    BY <1>3
  <2> QED BY <1>2, <1>3, <2>1 DEF Trace
<1> QED BY <1>2, <1>3

\* So two walks that have ended have found the same, in the same order.
LEMMA WalksAgree ==
    ASSUME NEW g, NEW V, NEW E, NEW W, NEW F,
           Reached(g, <<<<>>, V, E>>), Reached(g, <<<<>>, W, F>>)
    PROVE  E = F
<1> DEFINE v == <<<<>>, V, E>>
           w == <<<<>>, W, F>>
<1>1. PICK n \in Nat : \E tr : Trace(g, tr, n) /\ tr[n] = v
  BY DEF Reached
<1>2. PICK tr : Trace(g, tr, n) /\ tr[n] = v
  BY <1>1
<1>3. PICK m \in Nat : \E us : Trace(g, us, m) /\ us[m] = w
  BY DEF Reached
<1>4. PICK us : Trace(g, us, m) /\ us[m] = w
  BY <1>3
<1>5. v[1] = <<>> /\ w[1] = <<>> /\ v[3] = E /\ w[3] = F
  OBVIOUS
<1> HIDE DEF v, w
<1>6. CASE n <= m
  <2>1. n = m /\ tr[n] = us[n]
    BY <1>2, <1>4, <1>5, <1>6, TracesAgree
  <2> QED BY <1>2, <1>4, <1>5, <2>1
<1>7. CASE m <= n
  <2>1. n = m /\ us[m] = tr[m]
    BY <1>2, <1>4, <1>5, <1>7, TracesAgree
  <2> QED BY <1>2, <1>4, <1>5, <2>1
<1> QED BY <1>6, <1>7

-----------------------------------------------------------------------------
(* Where each command is, and what its walk has come to.                   *)

\* A command that builds the jar walks first; the others do not walk.
CommandInv(c) ==
    /\ WalkInv(conf, stack[c], paths[c], entries[c])
    /\ Reached(conf, <<stack[c], paths[c], entries[c]>>)
    /\ pc[c] \in PCs
    /\ ~Builds(c) => pc[c] \in {"start", "upload", "done", "failed"}
    /\ Builds(c) => pc[c] # "start" /\ (pc[c] = "walk" \/ stack[c] = <<>>)
    /\ pc[c] \in {"start", "upload"} => conf.kind[c] \in {"submit", "local"}
    /\ written[c] \in Nat /\ written[c] <= Len(entries[c])
    /\ pc[c] \in {"start", "walk", "open"} => written[c] = 0
    /\ Builds(c) /\ pc[c] \in {"close", "upload", "done"} => written[c] = Len(entries[c])

TypeInv == /\ conf \in Config
           /\ pc = [c \in Commands |-> pc[c]]
           /\ stack = [c \in Commands |-> stack[c]]
           /\ paths = [c \in Commands |-> paths[c]]
           /\ entries = [c \in Commands |-> entries[c]]
           /\ written = [c \in Commands |-> written[c]]
           /\ got = [c \in Commands |-> got[c]]
           /\ clash \subseteq Commands

Inv == TypeInv /\ \A c \in Commands : CommandInv(c)

LEMMA InitInv == Init => Inv
<1> SUFFICES ASSUME Init PROVE Inv
  OBVIOUS
<1>1. TypeInv
  BY JarAssumption DEF Init, TypeInv
<1>2. ASSUME NEW c \in Commands PROVE CommandInv(c)
  <2>1. WalkInv(conf, stack[c], paths[c], entries[c])
    BY <1>1, WalkStarts DEF Init, TypeInv
  <2>4. Reached(conf, <<stack[c], paths[c], entries[c]>>)
    BY StartReached DEF Init, Start
  <2>2. conf.kind[c] \in Kinds
    BY <1>1 DEF TypeInv, Config
  <2>3. /\ pc[c] = CASE conf.kind[c] = "idle" -> "done"
                    [] conf.kind[c] = "local" -> "start"
                    [] OTHER -> "walk"
        /\ written[c] = 0 /\ entries[c] = <<>>
    BY DEF Init
  <2> QED BY <2>1, <2>2, <2>3, <2>4 DEF CommandInv, Builds, Kinds, PCs
<1> QED BY <1>1, <1>2 DEF Inv

\* A step of one command leaves the others where they are.
LEMMA OthersStay ==
    ASSUME Inv, NEW c \in Commands, Step(c)
    PROVE  /\ conf' = conf
           /\ \A d \in Commands \ {c} : /\ pc'[d] = pc[d] /\ stack'[d] = stack[d] /\ paths'[d] = paths[d]
                                        /\ entries'[d] = entries[d] /\ written'[d] = written[d]
                                        /\ got'[d] = got[d]
           /\ TypeInv'
BY DEF Inv, TypeInv, Step, Visit, EndWalk, Open, Write, ReadFails, EndWrite, Close, FindJar, Upload, walk, Disturbed


LEMMA VisitInv == ASSUME Inv, NEW c \in Commands, Visit(c) PROVE CommandInv(c)'
<1>1. CommandInv(c) /\ conf \in Config /\ conf' = conf
  BY DEF Inv, TypeInv, Visit
<1>2. /\ stack[c] # <<>> /\ pc[c] = "walk"
      /\ stack'[c] = VisitS(conf, stack[c])
      /\ paths'[c] = VisitV(conf, stack[c], paths[c])
      /\ entries'[c] = VisitE(conf, stack[c], entries[c])
      /\ pc'[c] = pc[c] /\ written'[c] = written[c]
  <2>1. /\ stack' = [stack EXCEPT ![c] = VisitS(conf, stack[c])]
        /\ paths' = [paths EXCEPT ![c] = VisitV(conf, stack[c], paths[c])]
        /\ entries' = [entries EXCEPT ![c] = VisitE(conf, stack[c], entries[c])]
        /\ stack[c] # <<>>
    BY <1>1, VisitIs DEF CommandInv
  <2> QED BY <2>1 DEF Inv, TypeInv, Visit
<1>3. WalkInv(conf, stack'[c], paths'[c], entries'[c])
  BY <1>1, <1>2, VisitKeeps DEF CommandInv
<1>4. Reached(conf, <<stack'[c], paths'[c], entries'[c]>>)
  <2> DEFINE w == <<stack[c], paths[c], entries[c]>>
  <2>1. Reached(conf, w) /\ w[1] # <<>>
    BY <1>1, <1>2 DEF CommandInv
  <2>2. After(conf, w) = <<stack'[c], paths'[c], entries'[c]>>
    BY <1>2 DEF After
  <2> HIDE DEF w
  <2> QED BY <2>1, <2>2, AfterReached
<1>5. Len(entries'[c]) \in Nat
  BY <1>3 DEF WalkInv
<1>6. Builds(c)' = Builds(c)
  BY <1>1 DEF Builds
<1> QED BY <1>1, <1>2, <1>3, <1>4, <1>5, <1>6 DEF CommandInv

\* Every other step leaves the walk as it is.
LEMMA StepInv == ASSUME Inv, NEW c \in Commands, Step(c) PROVE CommandInv(c)'
<1>1. CASE Visit(c)
  BY <1>1, VisitInv
<1>2. CASE ~Visit(c)
  <2>1. UNCHANGED walk /\ conf' = conf
    BY <1>2 DEF Step, EndWalk, Open, Write, ReadFails, EndWrite, Close, FindJar, Upload
  <2>2. /\ WalkInv(conf, stack[c], paths[c], entries[c])'
        /\ Reached(conf, <<stack[c], paths[c], entries[c]>>)'
        /\ Builds(c)' = Builds(c) /\ entries'[c] = entries[c] /\ stack'[c] = stack[c]
    BY <2>1 DEF Inv, CommandInv, walk, Builds
  <2>3. Len(entries[c]) \in Nat
    BY DEF Inv, CommandInv, WalkInv
  <2>4. CASE EndWalk(c)
    BY <2>1, <2>2, <2>3, <2>4 DEF EndWalk, CommandInv, Inv, TypeInv, PCs
  <2>5. CASE Open(c)
    BY <2>1, <2>2, <2>3, <2>5 DEF Open, CommandInv, Inv, TypeInv, PCs
  <2>6. CASE Write(c)
    <3>1. /\ pc[c] = "write" /\ pc'[c] = pc[c] /\ written'[c] = written[c] + 1
          /\ written[c] \in Nat /\ written[c] < Len(entries[c])
      BY <2>6 DEF Write, Inv, TypeInv, CommandInv
    <3>2. CommandInv(c)
      BY DEF Inv
    <3> QED BY <2>1, <2>2, <2>3, <3>1, <3>2 DEF CommandInv
  <2>7. CASE ReadFails(c)
    BY <2>1, <2>2, <2>3, <2>7 DEF ReadFails, AfterReadError, CommandInv, Inv, TypeInv, PCs
  <2>8. CASE EndWrite(c)
    BY <2>1, <2>2, <2>3, <2>8 DEF EndWrite, CommandInv, Inv, TypeInv, PCs
  <2>9. CASE Close(c)
    <3>1. /\ pc[c] \in {"close", "abort"} /\ written'[c] = written[c]
          /\ pc'[c] \in {"failed", "upload", "done"}
          /\ pc'[c] = "upload" => conf.kind[c] = "submit"
          /\ pc'[c] \in {"upload", "done"} => pc[c] = "close"
      BY <2>9 DEF Close, Inv, TypeInv
    <3>2. Builds(c)
      BY <3>1 DEF Inv, CommandInv
    <3>3. CommandInv(c)
      BY DEF Inv
    <3> QED BY <2>1, <2>2, <2>3, <3>1, <3>2, <3>3 DEF CommandInv, PCs
  <2>10. CASE FindJar(c)
    <3>1. /\ pc[c] = "start" /\ written'[c] = written[c]
          /\ pc'[c] \in {"failed", "upload"}
      BY <2>10 DEF FindJar, Inv, TypeInv
    <3>2. CommandInv(c)
      BY DEF Inv
    <3>3. ~Builds(c)
      BY <3>1, <3>2 DEF CommandInv
    <3>4. conf.kind[c] = "local"
      <4>1. conf.kind[c] \in Kinds
        BY DEF Inv, TypeInv, Config
      <4> QED BY <3>1, <3>2, <3>3, <4>1 DEF CommandInv, Kinds, Builds
    <3> QED BY <2>1, <2>2, <2>3, <3>1, <3>2, <3>3, <3>4 DEF CommandInv, PCs
  <2>11. CASE Upload(c)
    BY <2>1, <2>2, <2>3, <2>11 DEF Upload, CommandInv, Inv, TypeInv, PCs
  <2> QED BY <1>2, <2>4, <2>5, <2>6, <2>7, <2>8, <2>9, <2>10, <2>11 DEF Step
<1> QED BY <1>1, <1>2

LEMMA InvKept == Inv /\ [Next]_vars => Inv'
<1> SUFFICES ASSUME Inv, [Next]_vars PROVE Inv'
  OBVIOUS
<1>1. ASSUME NEW c \in Commands, Step(c) PROVE Inv'
  <2>1. CommandInv(c)'
    BY <1>1, StepInv
  <2>2. ASSUME NEW d \in Commands \ {c} PROVE CommandInv(d)'
    <3>1. /\ conf' = conf /\ pc'[d] = pc[d] /\ stack'[d] = stack[d] /\ paths'[d] = paths[d]
          /\ entries'[d] = entries[d] /\ written'[d] = written[d]
      BY <1>1, OthersStay
    <3>2. CommandInv(d)
      BY DEF Inv
    <3> QED BY <3>1, <3>2 DEF CommandInv, Builds
  <2> QED BY <1>1, <2>1, <2>2, OthersStay DEF Inv
<1>2. CASE UNCHANGED vars
  BY <1>2 DEF vars, walk, Inv, TypeInv, CommandInv, Builds
<1> QED BY <1>1, <1>2 DEF Next

LEMMA InvPacks == Inv => PacksAll
<1> SUFFICES ASSUME Inv, NEW c \in Commands, Builds(c), pc[c] # "walk"
             PROVE  ToSet(entries[c]) = Packaged /\ Once(entries[c])
  BY DEF PacksAll, Once
<1>1. WalkInv(conf, <<>>, paths[c], entries[c]) /\ conf \in Config
  BY DEF Inv, TypeInv, CommandInv
<1> QED BY <1>1, WalkedAll

\* Every variable holds what it should; and no path is longer than there are
\* directories, of those the walk of _collect comes to and those it finds.
THEOREM TypeCorrect == Spec => []TypeOK
<1>1. Spec => []Inv
  BY InitInv, InvKept, PTL DEF Spec
<1>2. Inv => TypeOK
  <2> SUFFICES ASSUME Inv PROVE TypeOK
    OBVIOUS
  <2>1. \A c \in Commands : pc[c] \in PCs /\ written[c] \in Nat /\ written[c] <= Len(entries[c])
    BY DEF Inv, CommandInv
  <2>2. pc \in [Commands -> PCs] /\ conf \in Config /\ clash \subseteq Commands
    BY <2>1 DEF Inv, TypeInv
  <2>3. ASSUME NEW c \in Commands
        PROVE  /\ \A p \in ToSet(stack[c]) \cup paths[c] \cup ToSet(entries[c]) :
                      p \in Paths /\ Len(p) <= Cardinality(Dirs)
               /\ written[c] \in 0..Len(entries[c])
    <3>1. WalkInv(conf, stack[c], paths[c], entries[c])
      BY DEF Inv, CommandInv
    <3>2. /\ \A p : p \in ToSet(stack[c]) <=> Has(stack[c], p)
          /\ \A p : p \in ToSet(entries[c]) <=> Has(entries[c], p)
      BY DEF ToSet, Has
    <3>3. \A p : Has(stack[c], p) \/ p \in paths[c] => p \in Paths /\ Len(p) <= Cardinality(Dirs)
      <4>1. \A p : Has(stack[c], p) \/ p \in paths[c] => p \in Paths
        BY <3>1 DEF WalkInv, Has
      <4>2. \A p \in Paths : Has(stack[c], p) \/ p \in paths[c] => Pushed(conf, p)
        BY <3>1 DEF WalkInv, Stacked
      <4> QED BY <2>2, <4>1, <4>2, PushedIsShort
    <3>4. ASSUME NEW e, Has(entries[c], e) PROVE e \in Paths /\ Len(e) <= Cardinality(Dirs)
      <4>1. PICK p \in paths[c] : Walked(conf, p) /\ \E m \in FilesIn(conf, p) : e = Append(p, m)
        BY <3>1, <3>4 DEF WalkInv, Listed
      <4>2. PICK m \in FilesIn(conf, p) : e = Append(p, m)
        BY <4>1
      <4>3. p \in Paths /\ m \in Name
        BY <3>1 DEF WalkInv, FilesIn
      <4>4. e \in Paths /\ Len(e) = Len(p) + 1
        BY <4>2, <4>3, AboveAppend
      <4> QED BY <2>2, <4>1, <4>3, <4>4, WalkedIsShort
    <3>5. Len(entries[c]) \in Nat
      BY <3>1 DEF WalkInv
    <3> QED BY <2>1, <3>2, <3>3, <3>4, <3>5
  <2> QED BY <2>2, <2>3 DEF TypeOK, Paths, Name
<1> QED BY <1>1, <1>2, PTL

\* The walk of _collect lists every file of the tree once under each of its
\* names, excluded ones excepted, and no other, for any tree of links: a loop
\* is left where it closes, and nothing else is.
THEOREM AlwaysPacksAll == Spec => []PacksAll
<1>1. Spec => []Inv
  BY InitInv, InvKept, PTL DEF Spec
<1> QED BY <1>1, InvPacks, PTL


-----------------------------------------------------------------------------
(* The archive.                                                            *)

Chunks == [path : Paths \cup {<<"PK">>}, list : Seq(Paths)]

\* What belongs at place i of an archive of E.
Piece(E, i) == IF i <= Len(E) THEN Chunk(E[i]) ELSE Directory(E)

LEMMA PieceIs ==
    ASSUME NEW E \in Seq(Paths)
    PROVE  /\ \A i \in 1..(Len(E) + 1) : Piece(E, i) \in Chunks
           /\ \A i \in 1..Len(E) : Piece(E, i) = Chunk(E[i])
           /\ Piece(E, Len(E) + 1) = Directory(E)
           /\ Directory(SubSeq(E, 1, Len(E))) = Directory(E)
           /\ \A i \in 0..Len(E) : Directory(SubSeq(E, 1, i)) \in Chunks
           /\ Hole \in Chunks
<1>1. <<>> \in Seq(Paths) /\ <<>> \in Paths
  BY DEF Paths
<1>2. Len(E) \in Nat /\ \A i \in 1..Len(E) : E[i] \in Paths
  OBVIOUS
<1>3. SubSeq(E, 1, Len(E)) = E /\ \A i \in 0..Len(E) : SubSeq(E, 1, i) \in Seq(Paths)
  OBVIOUS
<1>4. \A i \in 1..Len(E) : Chunk(E[i]) \in Chunks
  BY <1>1, <1>2 DEF Chunk, Chunks
<1>5. \A l \in Seq(Paths) : Directory(l) \in Chunks
  BY DEF Directory, Chunks
<1>6. Hole \in Chunks
  BY <1>1 DEF Hole, Chunks
<1>7. \A i \in 1..(Len(E) + 1) : i \in 1..Len(E) \/ i = Len(E) + 1
  BY <1>2
<1>8. ~(Len(E) + 1 <= Len(E)) /\ \A i \in 1..Len(E) : i <= Len(E)
  BY <1>2
<1> QED BY <1>3, <1>4, <1>5, <1>6, <1>7, <1>8 DEF Piece

LEMMA PutIs ==
    ASSUME file \in Seq(Chunks), NEW i \in Nat \ {0}, NEW chunk \in Chunks
    PROVE  /\ Put(i, chunk) \in Seq(Chunks)
           /\ Len(Put(i, chunk)) = IF i > Len(file) THEN i ELSE Len(file)
           /\ Put(i, chunk)[i] = chunk
           /\ \A j \in 1..Len(Put(i, chunk)) : j # i => Put(i, chunk)[j] = IF j <= Len(file) THEN file[j] ELSE Hole
<1> DEFINE n == IF i > Len(file) THEN i ELSE Len(file)
           at(j) == IF j = i THEN chunk ELSE IF j \in DOMAIN file THEN file[j] ELSE Hole
<1>1. n \in Nat /\ i \in 1..n /\ DOMAIN file = 1..Len(file) /\ Len(file) \in Nat
  OBVIOUS
<1>2. Hole \in Chunks
  <2>1. <<>> \in Seq(Paths)
    OBVIOUS
  <2> QED BY <2>1, PieceIs
<1>3. \A j \in 1..n : at(j) \in Chunks
  BY <1>1, <1>2
<1>4. Put(i, chunk) = [j \in 1..n |-> at(j)]
  BY DEF Put
<1>5. \A j \in 1..n : j # i => at(j) = IF j <= Len(file) THEN file[j] ELSE Hole
  BY <1>1
<1>6. at(i) = chunk
  OBVIOUS
<1> HIDE DEF n, at
<1>7. Put(i, chunk) \in Seq(Chunks) /\ Len(Put(i, chunk)) = n /\ \A j \in 1..n : Put(i, chunk)[j] = at(j)
  BY <1>1, <1>3, <1>4
<1> QED BY <1>1, <1>5, <1>6, <1>7 DEF n

\* All the pieces of what there is to package make a whole archive.
LEMMA WholeIs ==
    ASSUME NEW E \in Seq(Paths), ToSet(E) = Packaged, NEW f \in Seq(Chunks), Len(f) = Len(E) + 1,
           \A i \in 1..Len(f) : f[i] = Piece(E, i)
    PROVE  Whole(f)
<1> DEFINE a == [i \in DOMAIN E |-> Chunk(E[i])]
           b == <<Directory(E)>>
<1>1. Len(E) \in Nat /\ DOMAIN E = 1..Len(E)
  OBVIOUS
<1>2. a \in Seq(Chunks) /\ Len(a) = Len(E) /\ \A i \in 1..Len(E) : a[i] = Piece(E, i)
  BY <1>1, PieceIs
<1>3. b \in Seq(Chunks) /\ Len(b) = 1 /\ b[1] = Piece(E, Len(E) + 1)
  <2>1. Piece(E, Len(E) + 1) = Directory(E) /\ Piece(E, Len(E) + 1) \in Chunks
    BY <1>1, PieceIs
  <2> QED BY <2>1
<1>4. f # <<>> /\ Last(f).list = E
  <2>1. Last(f) = Directory(E)
    BY <1>1, PieceIs DEF Last
  <2>2. Len(f) # 0
    BY <1>1
  <2> QED BY <2>1, <2>2 DEF Directory
<1> HIDE DEF a, b
<1>5. f = a \o b
  <2> HIDE DEF Chunks, Piece
  <2>1. a \o b \in Seq(Chunks) /\ Len(a \o b) = Len(E) + 1
    <3>1. a \in Seq(Chunks) /\ b \in Seq(Chunks) /\ Len(a) = Len(E) /\ Len(b) = 1
      BY <1>2, <1>3
    <3>2. a \o b \in Seq(Chunks) /\ Len(a \o b) = Len(a) + Len(b)
      BY <3>1, ConcatProperties
    <3> QED BY <3>1, <3>2
  <2>2. ASSUME NEW i \in 1..(Len(E) + 1) PROVE (a \o b)[i] = Piece(E, i)
    <3>1. (a \o b)[i] = IF i <= Len(a) THEN a[i] ELSE b[i - Len(a)]
      BY <1>1, <1>2, <1>3, ConcatProperties
    <3>2. CASE i <= Len(E)
      BY <1>1, <1>2, <3>1, <3>2
    <3>3. CASE ~(i <= Len(E))
      <4>1. i = Len(E) + 1 /\ i - Len(E) = 1
        BY <1>1, <3>3
      <4> QED BY <1>2, <1>3, <3>1, <3>3, <4>1
    <3> QED BY <3>2, <3>3
  <2> QED BY <2>1, <2>2, <1>1
<1>6. f = [i \in DOMAIN E |-> Chunk(E[i])] \o <<Directory(E)>>
  BY <1>5 DEF a, b
<1> QED BY <1>4, <1>6 DEF Whole


-----------------------------------------------------------------------------
(* What the commands that run at the same time do to the archive.          *)

Failed == \E d \in Commands : pc[d] = "failed"
NoneFails == \A d \in Commands : Builds(d) => pc[d] \notin {"abort", "failed"}
Opened(d) == Builds(d) /\ pc[d] \in {"write", "close", "abort", "upload", "done"}

Right(E) == Len(file) <= Len(E) + 1 /\ \A i \in 1..Len(file) : file[i] \in {Hole, Piece(E, i)}
HasWritten(d) ==
    /\ \A i \in 1..written[d] : i <= Len(file) /\ file[i] = Piece(entries[d], i)
    /\ pc[d] \in {"upload", "done"} =>
           LET n == Len(entries[d]) + 1 IN n <= Len(file) /\ file[n] = Piece(entries[d], n)

\* As long as no build fails, all write the same to the same places; and what
\* the last of them to open the archive has written is there.
Together ==
    NoneFails =>
        /\ \A d \in Commands : Opened(d) => Right(entries[d])
        /\ (\E d \in Commands : Opened(d)) => \E d \in Commands : Opened(d) /\ HasWritten(d)

Traced == file # <<>> => Failed \/ \E d \in Commands : Opened(d)

\* A command the others do not disturb.
Alone(c) ==
    /\ Writing(c) => /\ \A d \in Commands \ {c} : ~Writing(d)
                     /\ Len(file) = written[c]
                     /\ \A i \in 1..written[c] : file[i] = Piece(entries[c], i)
    /\ pc[c] = "upload" => /\ \A d \in Commands : ~Writing(d)
                           /\ Len(got[c]) <= Len(file)
                           /\ \A i \in 1..Len(got[c]) : got[c][i] = file[i]
                           /\ Whole(file) \/ (conf.kind[c] = "local" /\ Failed)
    /\ pc[c] = "done" /\ conf.kind[c] \in {"submit", "local"} =>
           Whole(got[c]) \/ (conf.kind[c] = "local" /\ Failed)

ArchiveInv ==
    /\ file \in Seq(Chunks) /\ \A c \in Commands : got[c] \in Seq(Chunks)
    /\ \A c \in Commands : pc[c] \notin {"upload", "done", "failed"} => got[c] = <<>>
    /\ Together /\ Traced
    /\ \A c \in Commands \ clash : Alone(c)

\* The steps, as the archive sees them.
Reads(c) == /\ pc[c] = "walk" /\ pc'[c] \in {"walk", "open", "failed"}
            /\ UNCHANGED <<written, file, got, clash>>
Opens(c) == /\ pc[c] = "open" /\ pc'[c] = "write" /\ entries' = entries
            /\ file' = <<>> /\ UNCHANGED <<written, got>>
            /\ clash \subseteq clash'
            /\ \A d \in Commands \ {c} : Writing(d) \/ pc[d] = "upload" => d \in clash'
            /\ c \notin clash' => \A d \in Commands \ {c} : ~Writing(d)
Writes(c) == /\ pc[c] = "write" /\ pc'[c] = "write" /\ entries' = entries
             /\ written[c] < Len(entries[c]) /\ written'[c] = written[c] + 1
             /\ file' = Put(written[c] + 1, Chunk(entries[c][written[c] + 1]))
             /\ UNCHANGED <<got, clash>>
Goes(c) == /\ pc[c] = "write" /\ pc'[c] \in {"abort", "close"} /\ entries' = entries
           /\ UNCHANGED <<written, file, got, clash>>
Closes(c) == /\ pc[c] \in {"close", "abort"} /\ entries' = entries
             /\ pc[c] = "abort" => pc'[c] = "failed"
             /\ pc[c] = "close" => pc'[c] = IF conf.kind[c] = "submit" THEN "upload" ELSE "done"
             /\ file' = Put(written[c] + 1, Directory(SubSeq(entries[c], 1, written[c])))
             /\ UNCHANGED <<written, got, clash>>
Finds(c) == /\ pc[c] = "start" /\ pc'[c] \in {"failed", "upload"} /\ entries' = entries
            /\ pc'[c] = "upload" => file # <<>> \/ \E d \in Commands : Writing(d)
            /\ clash \subseteq clash' /\ (c \notin clash' => \A d \in Commands : ~Writing(d))
            /\ UNCHANGED <<written, file, got>>
Uploads(c) == /\ pc[c] = "upload" /\ entries' = entries /\ UNCHANGED <<written, file, clash>>
              /\ \/ /\ Len(got[c]) < Len(file) /\ pc'[c] = "upload"
                    /\ got'[c] = Append(got[c], file[Len(got[c]) + 1])
                 \/ /\ ~(Len(got[c]) < Len(file)) /\ pc'[c] = "done" /\ got'[c] = got[c]

LEMMA StepIs ==
    ASSUME Inv, NEW c \in Commands, Step(c)
    PROVE  Reads(c) \/ Opens(c) \/ Writes(c) \/ Goes(c) \/ Closes(c) \/ Finds(c) \/ Uploads(c)
<1>1. /\ pc = [d \in Commands |-> pc[d]] /\ written = [d \in Commands |-> written[d]]
      /\ got = [d \in Commands |-> got[d]]
  BY DEF Inv, TypeInv
<1>2. CASE Visit(c)
  BY <1>2 DEF Visit, Reads
<1>3. CASE EndWalk(c)
  BY <1>1, <1>3 DEF EndWalk, Reads
<1>4. CASE Open(c)
  BY <1>1, <1>4 DEF Open, Opens, Disturbed, walk
<1>5. CASE Write(c)
  BY <1>1, <1>5 DEF Write, Writes, walk
<1>6. CASE ReadFails(c)
  BY <1>1, <1>6 DEF ReadFails, AfterReadError, Goes, walk
<1>7. CASE EndWrite(c)
  BY <1>1, <1>7 DEF EndWrite, Goes, walk
<1>8. CASE Close(c)
  <2>1. pc'[c] = IF pc[c] = "abort" THEN "failed" ELSE IF conf.kind[c] = "submit" THEN "upload" ELSE "done"
    BY <1>1, <1>8 DEF Close
  <2> QED BY <1>8, <2>1 DEF Close, Closes, walk
<1>9. CASE FindJar(c)
  BY <1>1, <1>9 DEF FindJar, Finds, walk
<1>10. CASE Upload(c)
  BY <1>1, <1>10 DEF Upload, Uploads, walk
<1> QED BY <1>2, <1>3, <1>4, <1>5, <1>6, <1>7, <1>8, <1>9, <1>10 DEF Step

LEMMA InitArchive == Init => ArchiveInv
<1> SUFFICES ASSUME Init PROVE ArchiveInv
  OBVIOUS
<1>1. /\ file = <<>> /\ \A c \in Commands : got[c] = <<>>
      /\ \A c \in Commands : Builds(c) => pc[c] = "walk"
  <2>1. \A c \in Commands : conf.kind[c] \in Kinds
    BY JarAssumption DEF Init, Config
  <2> QED BY <2>1 DEF Init, Builds, Kinds
<1>2. \A c \in Commands : pc[c] \in {"walk", "start"} \/ (pc[c] = "done" /\ conf.kind[c] = "idle")
  BY DEF Init
<1>3. \A c \in Commands : Alone(c)
  BY <1>2 DEF Alone, Writing
<1>4. <<>> \in Seq(Chunks)
  OBVIOUS
<1> QED BY <1>1, <1>3, <1>4 DEF ArchiveInv, Together, Traced, Opened

\* Commands that have walked to the end have the same entries.
LEMMA SameEntries ==
    ASSUME Inv, NEW c \in Commands, NEW d \in Commands, Builds(c), Builds(d), pc[c] # "walk", pc[d] # "walk"
    PROVE  entries[c] = entries[d]
BY WalksAgree DEF Inv, CommandInv

LEMMA EntriesType ==
    ASSUME Inv, NEW c \in Commands
    PROVE  /\ entries[c] \in Seq(Paths) /\ Len(entries[c]) \in Nat
           /\ written[c] \in 0..Len(entries[c])
<1>1. entries[c] \in Seq(Paths) /\ written[c] \in Nat /\ written[c] <= Len(entries[c])
  BY DEF Inv, CommandInv, WalkInv
<1>2. Len(entries[c]) \in Nat
  BY <1>1
<1> QED BY <1>1, <1>2

\* A writer does not come to be but by opening.
LEMMA WritersStay ==
    ASSUME Inv, NEW c \in Commands, Step(c)
    PROVE  /\ \A d \in Commands \ {c} : Writing(d)' <=> Writing(d)
           /\ \A d \in Commands \ {c} : Opened(d)' <=> Opened(d)
           /\ \A d \in Commands : Builds(d)' <=> Builds(d)
           /\ Packaged' = Packaged
           /\ Failed => Failed'
           /\ NoneFails' => NoneFails
           /\ Opened(c) => Opened(c)' \/ Failed'
<1>1. /\ conf' = conf /\ \A d \in Commands \ {c} : pc'[d] = pc[d]
  BY OthersStay
<1>2. \A d \in Commands : Builds(d)' <=> Builds(d)
  BY <1>1 DEF Builds
<1>3. Packaged' = Packaged
  BY <1>1 DEF Packaged, Files, Found, SubDirs, IsDir, At
<1>4. pc[c] # "failed" /\ (pc[c] = "abort" => pc'[c] = "failed")
      /\ (Opened(c) => pc'[c] \in {"write", "close", "abort", "upload", "done", "failed"})
  BY StepIs DEF Reads, Opens, Writes, Goes, Closes, Finds, Uploads, Opened
<1> QED BY <1>1, <1>2, <1>3, <1>4 DEF Writing, Opened, Failed, NoneFails


\* Writing a piece in its place leaves the others where they are.
LEMMA PieceWritten ==
    ASSUME file \in Seq(Chunks), NEW E \in Seq(Paths), NEW i \in 1..(Len(E) + 1), file' = Put(i, Piece(E, i))
    PROVE  /\ file' \in Seq(Chunks) /\ file' # <<>>
           /\ Len(file') = IF i > Len(file) THEN i ELSE Len(file)
           /\ file'[i] = Piece(E, i) /\ i <= Len(file')
           /\ \A j \in 1..Len(file) : j <= Len(file') /\ (j # i => file'[j] = file[j])
           /\ Right(E) => Right(E)'
<1>1. i \in Nat \ {0} /\ Piece(E, i) \in Chunks /\ Len(E) \in Nat /\ Len(file) \in Nat
  <2>1. Len(E) \in Nat /\ Len(file) \in Nat
    OBVIOUS
  <2> QED BY <2>1, PieceIs
<1>2. /\ file' \in Seq(Chunks)
      /\ Len(file') = IF i > Len(file) THEN i ELSE Len(file)
      /\ file'[i] = Piece(E, i)
      /\ \A j \in 1..Len(file') : j # i => file'[j] = IF j <= Len(file) THEN file[j] ELSE Hole
  <2> DEFINE piece == Piece(E, i)
  <2>1. piece \in Chunks /\ file' = Put(i, piece)
    BY <1>1
  <2> HIDE DEF piece
  <2>2. /\ Put(i, piece) \in Seq(Chunks)
        /\ Len(Put(i, piece)) = IF i > Len(file) THEN i ELSE Len(file)
        /\ Put(i, piece)[i] = piece
        /\ \A j \in 1..Len(Put(i, piece)) : j # i => Put(i, piece)[j] = IF j <= Len(file) THEN file[j] ELSE Hole
    BY <1>1, <2>1, PutIs
  <2> QED BY <2>1, <2>2 DEF piece
<1> HIDE DEF Chunks
<1>3. i <= Len(file') /\ Len(file') # 0
  BY <1>1, <1>2
<1>4. file' # <<>>
  BY <1>3
<1>5. \A j \in 1..Len(file) : j <= Len(file') /\ (j # i => file'[j] = file[j])
  BY <1>1, <1>2
<1>6. ASSUME Right(E) PROVE Right(E)'
  <2>1. Len(file') <= Len(E) + 1
    BY <1>1, <1>2, <1>6 DEF Right
  <2>2. ASSUME NEW j \in 1..Len(file') PROVE file'[j] \in {Hole, Piece(E, j)}
    <3>1. CASE j = i
      BY <1>2, <3>1
    <3>2. CASE j # i
      BY <1>1, <1>2, <1>6, <3>2 DEF Right
    <3> QED BY <3>1, <3>2
  <2> QED BY <2>1, <2>2 DEF Right
<1> QED BY <1>2, <1>3, <1>4, <1>5, <1>6

\* What a build that has not failed writes is the piece that belongs there.
LEMMA WritesPiece ==
    ASSUME Inv, NEW c \in Commands, Writes(c) \/ (Closes(c) /\ pc[c] = "close")
    PROVE  /\ written[c] + 1 \in 1..(Len(entries[c]) + 1)
           /\ file' = Put(written[c] + 1, Piece(entries[c], written[c] + 1))
           /\ Closes(c) => written[c] = Len(entries[c])
           /\ Builds(c)
<1>1. /\ entries[c] \in Seq(Paths) /\ Len(entries[c]) \in Nat /\ written[c] \in 0..Len(entries[c])
      /\ written[c] + 1 \in 1..(Len(entries[c]) + 1)
  BY EntriesType
<1>2. Builds(c) /\ (pc[c] = "close" => written[c] = Len(entries[c]))
  BY DEF Inv, CommandInv, Writes, Closes
<1>3. CASE Writes(c)
  <2>1. written[c] + 1 \in 1..Len(entries[c])
    BY <1>1, <1>3 DEF Writes
  <2> QED BY <1>1, <1>2, <1>3, <2>1, PieceIs DEF Writes, Closes
<1>4. CASE Closes(c) /\ pc[c] = "close"
  <2>1. written[c] = Len(entries[c])
    BY <1>2, <1>4
  <2> QED BY <1>1, <1>2, <1>4, <2>1, PieceIs DEF Closes
<1> QED BY <1>3, <1>4

LEMMA TogetherKept ==
    ASSUME Inv, Inv', ArchiveInv, NEW c \in Commands, Step(c)
    PROVE  Together'
<1> SUFFICES ASSUME NoneFails'
             PROVE  /\ \A d \in Commands : Opened(d)' => Right(entries[d])'
                    /\ (\E d \in Commands : Opened(d)') =>
                           \E d \in Commands : Opened(d)' /\ HasWritten(d)'
  BY DEF Together
<1>1. NoneFails /\ \A d \in Commands : Builds(d)' <=> Builds(d)
  BY WritersStay
<1>2. /\ \A d \in Commands : Opened(d) => Right(entries[d])
      /\ (\E d \in Commands : Opened(d)) => \E d \in Commands : Opened(d) /\ HasWritten(d)
      /\ file \in Seq(Chunks)
  BY <1>1 DEF ArchiveInv, Together
<1>3. \A d \in Commands \ {c} : /\ Opened(d)' <=> Opened(d)
                                /\ pc'[d] = pc[d] /\ written'[d] = written[d] /\ entries'[d] = entries[d]
  BY OthersStay, WritersStay
<1>4. \A d \in Commands : /\ entries[d] \in Seq(Paths) /\ Len(entries[d]) \in Nat
                          /\ written[d] \in 0..Len(entries[d])
  BY EntriesType
\* Neither the archive nor who has written to it changes.
<1>5. CASE Reads(c) \/ Goes(c) \/ Finds(c) \/ Uploads(c)
  <2>1. file' = file /\ written'[c] = written[c]
    BY <1>5 DEF Reads, Goes, Finds, Uploads
  <2>2. /\ Opened(c)' <=> Opened(c)
        /\ Opened(c) => entries'[c] = entries[c] /\ (pc'[c] \in {"upload", "done"} => pc[c] \in {"upload", "done"})
    <3>1. Finds(c) => ~Builds(c)
      BY DEF Finds, Inv, CommandInv
    <3> QED BY <1>1, <1>5, <3>1 DEF Reads, Goes, Finds, Uploads, Opened
  <2>3. \A d \in Commands : Opened(d)' => Right(entries[d])'
    BY <1>2, <1>3, <2>1, <2>2 DEF Right
  <2>4. \A d \in Commands : Opened(d) /\ HasWritten(d) => Opened(d)' /\ HasWritten(d)'
    <3> SUFFICES ASSUME NEW d \in Commands, Opened(d), HasWritten(d) PROVE Opened(d)' /\ HasWritten(d)'
      OBVIOUS
    <3>1. /\ Opened(d)' /\ entries'[d] = entries[d] /\ written'[d] = written[d]
          /\ pc'[d] \in {"upload", "done"} => pc[d] \in {"upload", "done"}
      BY <1>3, <2>1, <2>2
    <3> QED BY <2>1, <3>1 DEF HasWritten
  <2>5. (\E d \in Commands : Opened(d)') => \E d \in Commands : Opened(d)
    BY <1>3, <2>2
  <2> QED BY <1>2, <2>3, <2>4, <2>5
\* The archive is begun again.
<1>6. CASE Opens(c)
  <2>1. file' = <<>> /\ Len(file') = 0 /\ 1..Len(file') = {}
    BY <1>6 DEF Opens
  <2>2. \A d \in Commands : Right(entries[d])'
    <3>1. \A d \in Commands : entries'[d] = entries[d]
      BY <1>6 DEF Opens
    <3> QED BY <1>4, <2>1, <3>1 DEF Right
  <2>3. Opened(c)' /\ HasWritten(c)'
    <3>1. Builds(c) /\ written[c] = 0
      BY <1>6 DEF Inv, CommandInv, Opens
    <3>2. Builds(c)' /\ pc'[c] = "write" /\ written'[c] = 0
      BY <1>1, <1>6, <3>1 DEF Opens
    <3>3. 1..written'[c] = {}
      BY <3>2
    <3> QED BY <3>2, <3>3 DEF Opened, HasWritten
  <2> QED BY <2>2, <2>3
\* A piece is written, the same as any other build would.
<1>7. CASE Writes(c) \/ Closes(c)
  <2>1. pc[c] = "close" \/ Writes(c)
    <3>1. pc[c] # "abort"
      <4>1. pc[c] = "abort" => Builds(c)
        BY DEF Inv, CommandInv
      <4> QED BY <1>1, <4>1 DEF NoneFails
    <3> QED BY <1>7, <3>1 DEF Closes
  <2> DEFINE E == entries[c]
             i == written[c] + 1
  <2>2. /\ i \in 1..(Len(E) + 1) /\ file' = Put(i, Piece(E, i)) /\ E \in Seq(Paths)
        /\ Closes(c) => written[c] = Len(E)
        /\ Builds(c) /\ entries' = entries
    BY <1>4, <1>7, <2>1, WritesPiece DEF Writes, Closes
  <2>3. Opened(c) /\ Opened(c)'
    BY <1>1, <1>7, <2>1, <2>2 DEF Opened, Writes, Closes
  <2>4. \A d \in Commands : Opened(d)' <=> Opened(d)
    BY <1>3, <2>3
  <2>5. \A d \in Commands : Opened(d) => entries[d] = E
    BY <2>3, SameEntries DEF Opened
  <2>6. /\ file'[i] = Piece(E, i) /\ i <= Len(file')
        /\ \A j \in 1..Len(file) : j <= Len(file') /\ (j # i => file'[j] = file[j])
        /\ Right(E)'
    BY <1>2, <2>2, <2>3, PieceWritten
  <2>7. \A d \in Commands : Opened(d)' => Right(entries[d])'
    BY <2>2, <2>4, <2>5, <2>6 DEF Right
  <2>8. PICK d \in Commands : Opened(d) /\ HasWritten(d)
    BY <1>2, <2>3
  <2>9. HasWritten(d)'
    <3>1. entries[d] = E /\ entries'[d] = E
      BY <2>2, <2>5, <2>8
    <3>2. ASSUME NEW j \in 1..written'[d] PROVE j <= Len(file') /\ file'[j] = Piece(E, j)
      <4>1. j \in 1..written[d] \/ j = i
        <5>1. CASE d = c
          BY <1>4, <1>7, <5>1 DEF Writes, Closes
        <5>2. CASE d # c
          BY <1>3, <5>2
        <5> QED BY <5>1, <5>2
      <4>2. CASE j = i
        BY <2>6, <4>2
      <4>3. CASE j # i
        <5>1. j \in 1..written[d] /\ j <= Len(file) /\ file[j] = Piece(E, j)
          BY <2>8, <3>1, <4>1, <4>3 DEF HasWritten
        <5>2. j \in 1..Len(file)
          BY <1>2, <1>4, <5>1
        <5> QED BY <2>6, <4>3, <5>1, <5>2
      <4> QED BY <4>2, <4>3
    <3>3. ASSUME pc'[d] \in {"upload", "done"}
          PROVE  LET n == Len(E) + 1 IN n <= Len(file') /\ file'[n] = Piece(E, n)
      <4>1. CASE i = Len(E) + 1
        BY <2>6, <4>1
      <4>2. CASE i # Len(E) + 1
        <5>1. d # c
          BY <1>7, <2>2, <3>3, <4>2 DEF Writes
        <5>2. Len(E) + 1 <= Len(file) /\ file[Len(E) + 1] = Piece(E, Len(E) + 1)
          BY <1>3, <2>8, <3>1, <3>3, <5>1 DEF HasWritten
        <5>3. Len(E) + 1 \in 1..Len(file)
          BY <1>2, <1>4, <5>2
        <5> QED BY <2>6, <4>2, <5>2, <5>3
      <4> QED BY <4>1, <4>2
    <3> QED BY <3>1, <3>2, <3>3 DEF HasWritten
  <2> QED BY <2>4, <2>7, <2>8, <2>9
<1> QED BY <1>5, <1>6, <1>7, StepIs


LEMMA TracedKept ==
    ASSUME Inv, Inv', ArchiveInv, NEW c \in Commands, Step(c)
    PROVE  Traced'
<1>1. CASE file' = file
  <2>1. Failed => Failed'
    BY WritersStay
  <2>2. \A d \in Commands : Opened(d) => Opened(d)' \/ Failed'
    BY WritersStay
  <2> QED BY <1>1, <2>1, <2>2 DEF ArchiveInv, Traced
<1>2. CASE Opens(c)
  BY <1>2 DEF Opens, Traced
<1>3. CASE Writes(c) \/ Closes(c)
  <2>1. Opened(c)
    BY <1>3 DEF Inv, CommandInv, Writes, Closes, Opened
  <2>2. Opened(c)' \/ Failed'
    BY <2>1, WritersStay
  <2> QED BY <2>2 DEF Traced
<1> QED BY <1>1, <1>2, <1>3, StepIs DEF Reads, Goes, Finds, Uploads

\* When every build that opened the archive has closed it, all of it is there.
LEMMA BuiltWhole ==
    ASSUME Inv, ArchiveInv, NoneFails, \E d \in Commands : Opened(d),
           \A d \in Commands : Opened(d) => pc[d] \in {"upload", "done"}
    PROVE  Whole(file)
<1>1. PICK d \in Commands : Opened(d) /\ HasWritten(d)
  BY DEF ArchiveInv, Together
<1> DEFINE E == entries[d]
<1>2. E \in Seq(Paths) /\ Len(E) \in Nat /\ file \in Seq(Chunks) /\ Len(file) \in Nat
  <2>1. file \in Seq(Chunks) /\ E \in Seq(Paths) /\ Len(E) \in Nat
    BY EntriesType DEF ArchiveInv
  <2> HIDE DEF Chunks
  <2> QED BY <2>1
<1>3. pc[d] \in {"upload", "done"} /\ Builds(d)
  BY <1>1 DEF Opened
<1>4. written[d] = Len(E) /\ ToSet(E) = Packaged
  <2>1. written[d] = Len(E) /\ stack[d] = <<>>
    BY <1>3 DEF Inv, CommandInv
  <2>2. WalkInv(conf, <<>>, paths[d], E) /\ conf \in Config
    BY <2>1 DEF Inv, TypeInv, CommandInv
  <2> QED BY <2>1, <2>2, WalkedAll
<1>5. \A i \in 1..Len(E) : file[i] = Piece(E, i)
  BY <1>1, <1>4 DEF HasWritten
<1>6. Len(E) + 1 <= Len(file) /\ file[Len(E) + 1] = Piece(E, Len(E) + 1)
  BY <1>1, <1>3 DEF HasWritten
<1>7. Len(file) <= Len(E) + 1
  BY <1>1 DEF ArchiveInv, Together, Right
<1> HIDE DEF E, Chunks
<1>8. Len(file) = Len(E) + 1
  BY <1>2, <1>6, <1>7
<1>9. \A i \in 1..Len(file) : i \in 1..Len(E) \/ i = Len(E) + 1
  BY <1>2, <1>8
<1> QED BY <1>2, <1>4, <1>5, <1>6, <1>8, <1>9, WholeIs

\* What is left when nobody is writing.
LEMMA LeftWhole ==
    ASSUME Inv, ArchiveInv, file # <<>>, \A d \in Commands : ~Writing(d)
    PROVE  Whole(file) \/ Failed
<1> SUFFICES ASSUME ~Failed PROVE Whole(file)
  OBVIOUS
<1>1. NoneFails
  BY DEF Failed, NoneFails, Writing
<1>2. \E d \in Commands : Opened(d)
  BY DEF ArchiveInv, Traced
<1>3. \A d \in Commands : Opened(d) => pc[d] \in {"upload", "done"}
  BY DEF Writing, Opened
<1> QED BY <1>1, <1>2, <1>3, BuiltWhole

LEMMA GotKept ==
    ASSUME Inv, Inv', ArchiveInv, NEW c \in Commands, Step(c)
    PROVE  /\ file' \in Seq(Chunks) /\ \A d \in Commands : got'[d] \in Seq(Chunks)
           /\ \A d \in Commands : pc'[d] \notin {"upload", "done", "failed"} => got'[d] = <<>>
<1>1. /\ file \in Seq(Chunks) /\ \A d \in Commands : got[d] \in Seq(Chunks)
      /\ \A d \in Commands : pc[d] \notin {"upload", "done", "failed"} => got[d] = <<>>
  BY DEF ArchiveInv
<1>2. \A d \in Commands \ {c} : got'[d] = got[d] /\ pc'[d] = pc[d]
  BY OthersStay
<1>3. /\ entries[c] \in Seq(Paths) /\ Len(entries[c]) \in Nat /\ written[c] \in 0..Len(entries[c])
  BY EntriesType
<1>4. file' \in Seq(Chunks)
  <2>1. CASE Writes(c)
    <3>1. Writes(c) => pc[c] # "close" /\ written[c] + 1 \in 1..(Len(entries[c]) + 1)
                       /\ file' = Put(written[c] + 1, Piece(entries[c], written[c] + 1))
      BY <2>1, WritesPiece DEF Writes
    <3> QED BY <1>1, <1>3, <2>1, <3>1, PieceWritten
  <2>2. CASE Closes(c)
    <3>1. written[c] + 1 \in Nat \ {0} /\ Directory(SubSeq(entries[c], 1, written[c])) \in Chunks
      BY <1>3, PieceIs
    <3> QED BY <1>1, <2>2, <3>1, PutIs DEF Closes
  <2>3. CASE Opens(c)
    BY <2>3 DEF Opens
  <2>4. CASE file' = file
    BY <1>1, <2>4
  <2> QED BY <2>1, <2>2, <2>3, <2>4, StepIs DEF Reads, Goes, Finds, Uploads
<1>5. got'[c] \in Seq(Chunks)
  <2> HIDE DEF Chunks
  <2>1. CASE Uploads(c) /\ Len(got[c]) < Len(file)
    <3>1. Len(got[c]) + 1 \in 1..Len(file)
      BY <1>1, <2>1
    <3>2. file[Len(got[c]) + 1] \in Chunks
      BY <1>1, <3>1
    <3>3. got[c] \in Seq(Chunks) /\ got'[c] = Append(got[c], file[Len(got[c]) + 1])
      BY <1>1, <2>1 DEF Uploads
    <3> QED BY <3>2, <3>3
  <2>2. CASE got'[c] = got[c]
    BY <1>1, <2>2
  <2> QED BY <2>1, <2>2, StepIs DEF Reads, Opens, Writes, Goes, Closes, Finds, Uploads
<1>6. pc'[c] \notin {"upload", "done", "failed"} => got'[c] = <<>>
  BY <1>1, StepIs DEF Reads, Opens, Writes, Goes, Closes, Finds, Uploads
<1> QED BY <1>1, <1>2, <1>4, <1>5, <1>6

\* A command that is not disturbed is not by the steps of the others.
LEMMA AloneOther ==
    ASSUME Inv, Inv', ArchiveInv, NEW c \in Commands, Step(c), NEW d \in Commands \ {c}, d \notin clash'
    PROVE  Alone(d)'
<1>1. /\ conf' = conf /\ pc'[d] = pc[d] /\ written'[d] = written[d] /\ entries'[d] = entries[d]
      /\ got'[d] = got[d]
  BY OthersStay
<1>2. /\ \A x \in Commands \ {c} : Writing(x)' <=> Writing(x)
      /\ Packaged' = Packaged /\ (Failed => Failed')
  BY WritersStay
<1>3. clash \subseteq clash'
  BY StepIs DEF Reads, Opens, Writes, Goes, Closes, Finds, Uploads
<1>4. Alone(d)
  BY <1>3 DEF ArchiveInv
<1>5. pc'[d] = "done" /\ conf'.kind[d] \in {"submit", "local"} =>
          Whole(got[d])' \/ (conf'.kind[d] = "local" /\ Failed')
  BY <1>1, <1>2, <1>4 DEF Alone, Whole
<1>6. CASE Writing(c) \/ Opens(c)
  <2>1. ~Writing(d) /\ pc[d] # "upload"
    <3>1. CASE Writing(c)
      BY <1>4, <3>1 DEF Alone
    <3>2. CASE Opens(c)
      BY <3>2 DEF Opens
    <3> QED BY <1>6, <3>1, <3>2
  <2> QED BY <1>1, <1>2, <1>5, <2>1 DEF Alone
<1>7. CASE Reads(c) \/ Finds(c) \/ Uploads(c)
  <2>1. file' = file /\ ~Writing(c)'
    BY <1>7 DEF Reads, Finds, Uploads, Writing
  <2>2. \A x \in Commands : Writing(x)' => Writing(x)
    BY <1>2, <2>1
  <2> QED BY <1>1, <1>2, <1>4, <1>5, <2>1, <2>2 DEF Alone, Whole
<1> QED BY <1>6, <1>7, StepIs DEF Writes, Goes, Closes, Writing

LEMMA AloneSelf ==
    ASSUME Inv, Inv', ArchiveInv, NEW c \in Commands, Step(c), c \notin clash'
    PROVE  Alone(c)'
<1>1. conf' = conf /\ \A x \in Commands \ {c} : Writing(x)' <=> Writing(x)
  BY OthersStay, WritersStay
<1>2. Packaged' = Packaged /\ (Failed => Failed')
  BY WritersStay
<1>3. c \notin clash
  BY StepIs DEF Reads, Opens, Writes, Goes, Closes, Finds, Uploads
<1>4. Alone(c)
  BY <1>3 DEF ArchiveInv
<1>5. /\ file \in Seq(Chunks) /\ got[c] \in Seq(Chunks)
      /\ pc[c] \notin {"upload", "done", "failed"} => got[c] = <<>>
  BY DEF ArchiveInv
<1>6. entries[c] \in Seq(Paths) /\ Len(entries[c]) \in Nat /\ written[c] \in 0..Len(entries[c])
  BY EntriesType
<1> HIDE DEF Chunks
<1>7. CASE Reads(c)
  BY <1>7 DEF Reads, Alone, Writing
<1>8. CASE Opens(c)
  <2>1. written'[c] = 0 /\ file' = <<>> /\ pc'[c] = "write"
    BY <1>8 DEF Opens, Inv, CommandInv
  <2>2. \A x \in Commands \ {c} : ~Writing(x)'
    BY <1>1, <1>8 DEF Opens
  <2> QED BY <2>1, <2>2 DEF Alone
<1>9. CASE Writes(c)
  <2>1. /\ Len(file) = written[c] /\ \A i \in 1..written[c] : file[i] = Piece(entries[c], i)
        /\ \A x \in Commands \ {c} : ~Writing(x)'
    BY <1>1, <1>4, <1>9 DEF Alone, Writing, Writes
  <2>2. /\ written[c] + 1 \in 1..(Len(entries[c]) + 1)
        /\ file' = Put(written[c] + 1, Piece(entries[c], written[c] + 1))
    BY <1>9, WritesPiece
  <2>3. /\ Len(file') = written[c] + 1
        /\ file'[written[c] + 1] = Piece(entries[c], written[c] + 1)
        /\ \A j \in 1..written[c] : file'[j] = file[j]
    BY <1>5, <1>6, <2>1, <2>2, PieceWritten
  <2>4. pc'[c] = "write" /\ written'[c] = written[c] + 1 /\ entries'[c] = entries[c]
    BY <1>9 DEF Writes
  <2>5. \A i \in 1..written'[c] : file'[i] = Piece(entries'[c], i)
    <3>1. \A i \in 1..(written[c] + 1) : i \in 1..written[c] \/ i = written[c] + 1
      BY <1>6
    <3> QED BY <2>1, <2>3, <2>4, <3>1
  <2> QED BY <2>1, <2>3, <2>4, <2>5 DEF Alone
<1>10. CASE Goes(c)
  BY <1>1, <1>4, <1>10 DEF Goes, Alone, Writing
<1>11. CASE Closes(c)
  <2>1. /\ Len(file) = written[c] /\ \A i \in 1..written[c] : file[i] = Piece(entries[c], i)
        /\ \A x \in Commands \ {c} : ~Writing(x)'
    BY <1>1, <1>4, <1>11 DEF Alone, Writing, Closes
  <2>2. Builds(c) /\ got[c] = <<>> /\ got'[c] = got[c] /\ pc'[c] \in {"upload", "done", "failed"}
    BY <1>5, <1>11 DEF Closes, Inv, CommandInv
  <2>3. ~Writing(c)'
    BY <2>2 DEF Writing
  <2>4. CASE pc'[c] = "upload"
    <3>1. pc[c] = "close"
      BY <1>11, <2>4 DEF Closes
    <3>2. /\ written[c] + 1 \in 1..(Len(entries[c]) + 1) /\ written[c] = Len(entries[c])
          /\ file' = Put(written[c] + 1, Piece(entries[c], written[c] + 1))
      BY <1>11, <3>1, WritesPiece
    <3>3. /\ file' \in Seq(Chunks) /\ Len(file') = Len(entries[c]) + 1
          /\ file'[Len(entries[c]) + 1] = Piece(entries[c], Len(entries[c]) + 1)
          /\ \A j \in 1..Len(entries[c]) : file'[j] = file[j]
      <4> DEFINE E == entries[c]
      <4>1. /\ written[c] + 1 \in 1..(Len(E) + 1) /\ file' = Put(written[c] + 1, Piece(E, written[c] + 1))
            /\ E \in Seq(Paths) /\ written[c] = Len(E) /\ Len(file) = Len(E) /\ Len(E) \in Nat
        BY <1>6, <2>1, <3>2
      <4> HIDE DEF E
      <4>2. /\ file' \in Seq(Chunks) /\ Len(file') = IF Len(E) + 1 > Len(file) THEN Len(E) + 1 ELSE Len(file)
            /\ file'[Len(E) + 1] = Piece(E, Len(E) + 1)
            /\ \A j \in 1..Len(file) : j # Len(E) + 1 => file'[j] = file[j]
        BY <1>5, <4>1, PieceWritten
      <4>3. Len(file') = Len(E) + 1 /\ \A j \in 1..Len(E) : j # Len(E) + 1
        BY <4>1, <4>2
      <4> QED BY <4>1, <4>2, <4>3 DEF E
    <3>4. \A i \in 1..Len(file') : file'[i] = Piece(entries[c], i)
      BY <1>6, <2>1, <3>2, <3>3
    <3>5. ToSet(entries[c]) = Packaged
      <4>1. WalkInv(conf, <<>>, paths[c], entries[c]) /\ conf \in Config
        BY <2>2, <3>1 DEF Inv, TypeInv, CommandInv
      <4> QED BY <4>1, WalkedAll
    <3>6. Whole(file)'
      <4>1. \A f \in Seq(Chunks) : Len(f) = Len(entries[c]) + 1 /\ (\A i \in 1..Len(f) : f[i] = Piece(entries[c], i))
                                      => Whole(f)
        BY <1>6, <3>5, WholeIs
      <4>2. \A f : Whole(f) <=> (f # <<>> /\ LET list == Last(f).list
                                             IN /\ ToSet(list) = Packaged
                                                /\ f = [i \in DOMAIN list |-> Chunk(list[i])] \o <<Directory(list)>>)
        BY DEF Whole
      <4> QED BY <1>2, <3>3, <3>4, <4>1, <4>2 DEF Whole
    <3>7. Len(got'[c]) = 0 /\ 1..Len(got'[c]) = {} /\ Len(file') \in Nat
      BY <2>2, <3>3
    <3>8. \A x \in Commands : ~Writing(x)'
      BY <2>1, <2>3
    <3> QED BY <2>4, <3>3, <3>6, <3>7, <3>8, <1>6 DEF Alone, Writing
  <2>5. CASE pc'[c] = "done"
    <3>1. conf.kind[c] = "jar"
      BY <1>11, <2>2, <2>5 DEF Closes, Builds
    <3> QED BY <1>1, <2>3, <2>5, <3>1 DEF Alone
  <2>6. CASE pc'[c] = "failed"
    BY <2>3, <2>6 DEF Alone
  <2> QED BY <2>2, <2>4, <2>5, <2>6
<1>12. CASE Finds(c)
  <2>1. /\ \A x \in Commands : ~Writing(x)
        /\ file' = file /\ got'[c] = <<>> /\ ~Writing(c)'
    BY <1>5, <1>12 DEF Finds, Writing
  <2>2. conf.kind[c] = "local"
    BY <1>12 DEF Finds, Inv, CommandInv, Builds
  <2>3. CASE pc'[c] = "upload"
    <3>1. Whole(file) \/ Failed
      BY <1>12, <2>1, <2>3, LeftWhole DEF Finds
    <3>2. Whole(file)' \/ Failed'
      BY <1>2, <2>1, <3>1 DEF Whole
    <3>3. Len(got'[c]) = 0 /\ 1..Len(got'[c]) = {} /\ Len(file') \in Nat
      BY <1>5, <2>1
    <3>4. \A x \in Commands : ~Writing(x)'
      BY <1>1, <2>1
    <3> QED BY <1>1, <2>2, <2>3, <3>2, <3>3, <3>4 DEF Alone, Writing
  <2>4. CASE pc'[c] = "failed"
    BY <2>1, <2>4 DEF Alone
  <2> QED BY <1>12, <2>3, <2>4 DEF Finds
<1>13. CASE Uploads(c)
  <2>1. /\ \A x \in Commands : ~Writing(x)
        /\ Len(got[c]) <= Len(file) /\ \A i \in 1..Len(got[c]) : got[c][i] = file[i]
        /\ Whole(file) \/ (conf.kind[c] = "local" /\ Failed)
        /\ file' = file /\ ~Writing(c)'
    BY <1>4, <1>13 DEF Uploads, Alone, Writing
  <2>2. \A x \in Commands : ~Writing(x)'
    BY <1>1, <2>1
  <2>3. Whole(file)' \/ (conf'.kind[c] = "local" /\ Failed')
    BY <1>1, <1>2, <2>1 DEF Whole
  <2>4. Len(got[c]) \in Nat /\ Len(file) \in Nat
    BY <1>5
  <2>5. CASE Len(got[c]) < Len(file)
    <3>1. pc'[c] = "upload" /\ got'[c] = Append(got[c], file[Len(got[c]) + 1])
      BY <1>13, <2>5 DEF Uploads
    <3>2. Len(got'[c]) = Len(got[c]) + 1 /\ \A i \in 1..Len(got'[c]) : got'[c][i] = file'[i]
      BY <1>5, <2>1, <3>1
    <3> QED BY <2>1, <2>2, <2>3, <2>4, <2>5, <3>1, <3>2 DEF Alone, Writing
  <2>6. CASE ~(Len(got[c]) < Len(file))
    <3>1. pc'[c] = "done" /\ got'[c] = got[c]
      BY <1>13, <2>6 DEF Uploads
    <3>2. got[c] = file
      <4>1. Len(got[c]) = Len(file)
        BY <2>1, <2>4, <2>6
      <4> QED BY <1>5, <2>1, <4>1
    <3> QED BY <2>1, <2>2, <2>3, <3>1, <3>2 DEF Alone, Whole
  <2> QED BY <2>5, <2>6
<1> QED BY <1>7, <1>8, <1>9, <1>10, <1>11, <1>12, <1>13, StepIs

LEMMA ArchiveKept == Inv /\ Inv' /\ ArchiveInv /\ [Next]_vars => ArchiveInv'
<1> SUFFICES ASSUME Inv, Inv', ArchiveInv, [Next]_vars PROVE ArchiveInv'
  OBVIOUS
<1>1. ASSUME NEW c \in Commands, Step(c) PROVE ArchiveInv'
  <2>1. ASSUME NEW d \in Commands \ clash' PROVE Alone(d)'
    BY <1>1, AloneSelf, AloneOther
  <2> QED BY <1>1, <2>1, TogetherKept, TracedKept, GotKept DEF ArchiveInv
<1>2. CASE UNCHANGED vars
  <2>1. Packaged' = Packaged
    BY <1>2 DEF vars, Packaged, Files, Found, SubDirs, IsDir, At
  <2>2. /\ UNCHANGED <<conf, pc, entries, written, file, got, clash>>
        /\ \A d \in Commands : Builds(d)' <=> Builds(d)
    BY <1>2 DEF vars, walk, Builds
  <2>3. /\ \A d \in Commands : /\ Opened(d)' <=> Opened(d)
                               /\ HasWritten(d)' <=> HasWritten(d)
                               /\ Right(entries[d])' <=> Right(entries[d])
                               /\ Writing(d)' <=> Writing(d)
                               /\ Whole(got[d])' <=> Whole(got[d])
        /\ NoneFails' <=> NoneFails
        /\ Failed' <=> Failed
        /\ Whole(file)' <=> Whole(file)
    BY <2>1, <2>2 DEF Opened, HasWritten, Right, Writing, NoneFails, Failed, Whole
  <2>4. Together' /\ Traced'
    BY <2>2, <2>3 DEF ArchiveInv, Together, Traced
  <2>5. ASSUME NEW d \in Commands \ clash PROVE Alone(d)'
    BY <2>2, <2>3 DEF ArchiveInv, Alone
  <2> QED BY <2>2, <2>4, <2>5 DEF ArchiveInv
<1> QED BY <1>1, <1>2 DEF Next

LEMMA ArchiveIsWhole == Inv /\ ArchiveInv => ArchiveWhole
<1> SUFFICES ASSUME Inv, ArchiveInv PROVE ArchiveWhole
  OBVIOUS
<1>1. ASSUME NEW c \in Commands \ clash, conf.kind[c] \in {"submit", "local"} /\ pc[c] = "done"
      PROVE  Whole(got[c]) \/ (conf.kind[c] = "local" /\ \E d \in Commands : pc[d] = "failed")
  BY <1>1 DEF ArchiveInv, Alone, Failed
<1>2. ASSUME \A c \in Commands : Builds(c) => pc[c] \in {"upload", "done"}, \E c \in Commands : Builds(c)
      PROVE  Whole(file)
  <2>1. NoneFails /\ \E c \in Commands : Opened(c)
    BY <1>2 DEF NoneFails, Opened
  <2>2. \A d \in Commands : Opened(d) => pc[d] \in {"upload", "done"}
    BY <1>2 DEF Opened
  <2> QED BY <2>1, <2>2, BuiltWhole
<1> QED BY <1>1, <1>2 DEF ArchiveWhole

\* What a command uploads, undisturbed, is a whole archive; and builds that
\* overlap in one directory (jar.py:18) leave a whole one, if none fails.
THEOREM AlwaysArchiveWhole == Spec => []ArchiveWhole
<1>1. Init => Inv /\ ArchiveInv
  BY InitInv, InitArchive
<1>2. Inv /\ ArchiveInv /\ [Next]_vars => (Inv /\ ArchiveInv)'
  BY InvKept, ArchiveKept
<1>3. Inv /\ ArchiveInv => ArchiveWhole
  BY ArchiveIsWhole
<1> QED BY <1>1, <1>2, <1>3, PTL DEF Spec

=============================================================================
