-------------------------- MODULE ProtoArrayProofs --------------------------
(***************************************************************************)
(* What the operators of ProtoArray keep, for every vector of nodes: the   *)
(* shape of the tree, the best child and best descendant links, and the    *)
(* agreement of the payload statuses.  The loops of the code are recursive *)
(* functions; the first section has what is needed to reason about them.   *)
(***************************************************************************)
EXTENDS ProtoArray, WellFoundedInduction, TLAPS

-----------------------------------------------------------------------------
(***************************************************************************)
(* Recursion                                                               *)
(***************************************************************************)

\* Induction up to n, for a set S.
LEMMA Induct ==
    ASSUME NEW n \in Nat, NEW S, 0 \in S, \A k \in 0..(n-1) : k \in S => k + 1 \in S
    PROVE \A k \in 0..n : k \in S
<1> SUFFICES ASSUME NEW T, T = {k \in 0..n : k \notin S}, T # {} PROVE FALSE
  OBVIOUS
<1>1. T \subseteq Nat
  OBVIOUS
<1>2. PICK x \in T : \A y \in T : ~(<<y, x>> \in OpToRel(<, Nat))
  BY <1>1, WFMin, NatLessThanWellFounded, Zenon
<1>3. \A y \in T : ~(y < x)
  BY <1>1, <1>2, Zenon DEF OpToRel
<1>4. x # 0 /\ x \in 0..n
  OBVIOUS
<1>5. x - 1 \in 0..(n-1) /\ x - 1 \in S
  BY <1>3, <1>4
<1>6. (x - 1) + 1 \in S
  BY <1>5
<1> QED
  BY <1>6, <1>4

\* f is computed from f[0] = base up to f[m] by f[k] = step[k, f[p[k]]].
IsRecursive(f, m, T, p, base, step) ==
  /\ f \in [0..m -> T]
  /\ f[0] = base
  /\ \A k \in 1..m : f[k] = step[<<k, f[p[k]]>>]

\* Such a function goes on for one more value.
LEMMA Extend ==
    ASSUME NEW m \in Nat, NEW p, \A k \in 1..(m+1) : p[k] \in 0..(k - 1),
         NEW T, NEW base, NEW step \in [(1..(m+1)) \X T -> T],
         NEW f, IsRecursive(f, m, T, p, base, step)
    PROVE \E g : IsRecursive(g, m + 1, T, p, base, step)
<1> DEFINE g == [k \in 0..(m+1) |-> IF k <= m THEN f[k] ELSE step[<<k, f[p[k]]>>]]
<1>0. f \in [0..m -> T]
  BY DEF IsRecursive
<1>1. p[m+1] \in 0..m
  OBVIOUS
<1>2. g \in [0..(m+1) -> T]
  <2>1. f[p[m+1]] \in T
    BY <1>0, <1>1
  <2>2. step[<<m+1, f[p[m+1]]>>] \in T
    BY <2>1
  <2> QED BY <1>0, <2>2
<1>3. g[0] = base
  BY DEF IsRecursive
<1>4. ASSUME NEW k \in 1..(m+1) PROVE g[k] = step[<<k, g[p[k]]>>]
  <2>1. p[k] \in 0..(k-1)
    OBVIOUS
  <2>2. g[p[k]] = f[p[k]]
    BY <2>1
  <2>3. k <= m => f[k] = step[<<k, f[p[k]]>>]
    BY DEF IsRecursive
  <2>4. g[k] = IF k <= m THEN f[k] ELSE step[<<k, f[p[k]]>>]
    OBVIOUS
  <2> HIDE DEF g
  <2> QED BY <2>2, <2>3, <2>4
<1> HIDE DEF g
<1> QED
  BY <1>2, <1>3, <1>4 DEF IsRecursive

\* It exists when p[k] is always before k; its values are in T when the steps stay there.
LEMMA Recursion ==
    ASSUME NEW n \in Nat, NEW p, \A k \in 1..n : p[k] \in 0..(k - 1),
         NEW T, NEW base \in T, NEW step \in [(1..n) \X T -> T]
    PROVE \E f : IsRecursive(f, n, T, p, base, step)
<1> DEFINE S == {m \in 0..n : \E f : IsRecursive(f, m, T, p, base, step)}
<1>1. 0 \in S
  <2> DEFINE f == [k \in 0..0 |-> base]
  <2>1. f \in [0..0 -> T] /\ f[0] = base
    OBVIOUS
  <2> HIDE DEF f
  <2>2. IsRecursive(f, 0, T, p, base, step)
    BY <2>1 DEF IsRecursive
  <2> QED BY <2>2
<1>2. ASSUME NEW m \in 0..(n-1), m \in S PROVE m + 1 \in S
  <2>1. PICK f : IsRecursive(f, m, T, p, base, step)
    BY <1>2
  <2> DEFINE less == [x \in (1..(m+1)) \X T |-> step[x]]
  <2>2. less \in [(1..(m+1)) \X T -> T] /\ \A x \in (1..(m+1)) \X T : less[x] = step[x]
    OBVIOUS
  <2> HIDE DEF less
  <2>3. f \in [0..m -> T] /\ \A k \in 1..m : f[p[k]] \in T
    BY <2>1 DEF IsRecursive
  <2>4. IsRecursive(f, m, T, p, base, less)
    BY <2>1, <2>2, <2>3 DEF IsRecursive
  <2>5. PICK g : IsRecursive(g, m + 1, T, p, base, less)
    <3>1. m \in Nat /\ \A k \in 1..(m+1) : p[k] \in 0..(k - 1)
      OBVIOUS
    <3> QED BY <2>2, <2>4, <3>1, Extend
  <2>6. g \in [0..(m+1) -> T] /\ \A k \in 1..(m+1) : g[p[k]] \in T
    BY <2>5 DEF IsRecursive
  <2>7. IsRecursive(g, m + 1, T, p, base, step)
    BY <2>2, <2>5, <2>6 DEF IsRecursive
  <2> QED BY <2>7
<1> HIDE DEF S
<1>3. \A m \in 0..(n-1) : m \in S => m + 1 \in S
  BY <1>2
<1>4. \A k \in 0..n : k \in S
  BY <1>1, <1>3, Induct
<1> QED BY <1>4 DEF S

\* The loops that go from one value to the next.
IsLoop(f, n, T, base, step) ==
    /\ f \in [0..n -> T]
    /\ f[0] = base
    /\ \A k \in 1..n : f[k] = step[<<k, f[k - 1]>>]

LEMMA Loop ==
    ASSUME NEW n \in Nat, NEW T, NEW base \in T, NEW step \in [(1..n) \X T -> T]
    PROVE  \E f : IsLoop(f, n, T, base, step)
<1> DEFINE p == [k \in 1..n |-> k - 1]
<1>1. \A k \in 1..n : p[k] = k - 1 /\ p[k] \in 0..(k - 1)
  OBVIOUS
<1> HIDE DEF p
<1>2. PICK f : IsRecursive(f, n, T, p, base, step)
  BY <1>1, Recursion
<1> QED
  BY <1>1, <1>2 DEF IsRecursive, IsLoop

\* What the first value has and every step keeps, all values have.
LEMMA LoopInvariant ==
    ASSUME NEW n \in Nat, NEW T, NEW f, f[0] \in T, \A k \in 1..n : f[k - 1] \in T => f[k] \in T
    PROVE  \A k \in 0..n : f[k] \in T
<1> DEFINE S == {k \in 0..n : f[k] \in T}
<1>1. 0 \in S
  OBVIOUS
<1>2. ASSUME NEW k \in 0..(n - 1), k \in S PROVE k + 1 \in S
  <2>1. k + 1 \in 1..n /\ k + 1 \in 0..n /\ (k + 1) - 1 = k /\ f[k] \in T
    BY <1>2
  <2>2. f[k + 1] \in T
    BY <2>1
  <2> QED BY <2>1, <2>2
<1> HIDE DEF S
<1>3. \A k \in 0..n : k \in S
  BY <1>1, <1>2, Induct
<1> QED
  BY <1>3 DEF S

\* A set of numbers up to n that is not empty has a greatest one, and Max returns it.
LEMMA MaxOfSet ==
    ASSUME NEW n \in Nat, NEW S \in SUBSET (0..n), S # {}
    PROVE  Max(S) \in S /\ \A x \in S : x <= Max(S)
<1> DEFINE D == {k \in 0..n : n - k \in S}
<1>1. \A x \in S : x \in 0..n /\ n - x \in D /\ n - (n - x) = x
  OBVIOUS
<1>2. D \subseteq Nat /\ D # {}
  <2>1. D \subseteq Nat
    OBVIOUS
  <2>2. PICK x \in S : TRUE
    OBVIOUS
  <2> QED BY <1>1, <2>1, <2>2
<1> HIDE DEF D
<1>3. PICK d \in D : \A y \in D : ~(<<y, d>> \in OpToRel(<, Nat))
  BY <1>2, WFMin, NatLessThanWellFounded, Zenon
<1>4. \A y \in D : ~(y < d)
  BY <1>2, <1>3, Zenon DEF OpToRel
<1>5. n - d \in S /\ \A x \in S : x <= n - d
  <2>1. n - d \in S /\ d \in 0..n
    BY DEF D
  <2>2. \A x \in S : x \in 0..n /\ ~(n - x < d)
    BY <1>1, <1>4
  <2> QED BY <2>1, <2>2
<1>6. \E m \in S : \A x \in S : m >= x
  BY <1>1, <1>5
<1>7. Max(S) \in S /\ \A x \in S : Max(S) >= x
  BY <1>6 DEF Max
<1> QED
  BY <1>1, <1>7

\* A sum of integers is an integer, a sum of natural numbers is a natural number.
LEMMA SumInSet ==
    ASSUME NEW n \in Nat, NEW V \in SUBSET Int, 0 \in V, \A x, y \in V : x + y \in V,
           NEW f \in [1..n -> V]
    PROVE  SumTo(f, n) \in V
<1> DEFINE step == [x \in (1..n) \X V |-> x[2] + f[x[1]]]
           sum == CHOOSE sum : sum = [k \in 0..n |-> IF k = 0 THEN 0 ELSE sum[k - 1] + f[k]]
<1>1. step \in [(1..n) \X V -> V]
  OBVIOUS
<1>2. \A k \in 1..n, x \in V : step[<<k, x>>] = x + f[k]
  OBVIOUS
<1>3. PICK g : IsLoop(g, n, V, 0, step)
  <2> DEFINE base == 0
  <2>1. base \in V
    OBVIOUS
  <2> HIDE DEF step, base
  <2>2. \E g : IsLoop(g, n, V, base, step)
    BY <1>1, <2>1, Loop
  <2> QED BY <2>2 DEF base
<1>4. g = [k \in 0..n |-> IF k = 0 THEN 0 ELSE g[k - 1] + f[k]]
  <2> HIDE DEF step
  <2>0. g \in [0..n -> V] /\ g[0] = 0
    BY <1>3 DEF IsLoop
  <2>1. \A k \in 1..n : g[k - 1] \in V
    BY <2>0
  <2>2. \A k \in 1..n : g[k] = g[k - 1] + f[k]
    BY <1>2, <1>3, <2>1 DEF IsLoop
  <2> QED BY <2>0, <2>2
<1>5. sum = [k \in 0..n |-> IF k = 0 THEN 0 ELSE sum[k - 1] + f[k]]
  BY <1>4
<1> HIDE DEF sum, step
<1>6. sum[0] \in V
  BY <1>5
<1>7. \A k \in 1..n : sum[k] = sum[k - 1] + f[k]
  BY <1>5
<1>8. \A k \in 0..n : sum[k] \in V
  BY <1>6, <1>7, LoopInvariant, ZenonT(60)
<1> QED
  BY <1>8 DEF SumTo, sum

LEMMA SumIsInt ==
    ASSUME NEW n \in Nat, NEW f \in [1..n -> Int]
    PROVE  SumTo(f, n) \in Int
<1> DEFINE V == Int
<1>1. V \in SUBSET Int /\ 0 \in V /\ (\A x, y \in V : x + y \in V) /\ f \in [1..n -> V]
  OBVIOUS
<1> HIDE DEF V
<1> QED BY <1>1, SumInSet DEF V

LEMMA SumIsNat ==
    ASSUME NEW n \in Nat, NEW f \in [1..n -> Nat]
    PROVE  SumTo(f, n) \in Nat
<1> DEFINE V == Nat
<1>1. V \in SUBSET Int /\ 0 \in V /\ (\A x, y \in V : x + y \in V) /\ f \in [1..n -> V]
  OBVIOUS
<1> HIDE DEF V
<1> QED BY <1>1, SumInSet DEF V

-----------------------------------------------------------------------------
(***************************************************************************)
(* The tree and the walk back through it                                   *)
(***************************************************************************)

Node == [root : Roots, parent : Nat, weight : Nat, best_child : Nat, best_descendant : Nat,
         execution_status : Statuses]

\* A vector of nodes in topological order, with one node for a root.
IsTree(nodes) ==
    /\ nodes \in Seq(Node)
    /\ \A i \in DOMAIN nodes :
        /\ nodes[i].parent < i
        /\ nodes[i].parent # NoIndex => nodes[nodes[i].parent].root = Block[nodes[i].root].parent
    /\ \A i, j \in DOMAIN nodes : nodes[i].root = nodes[j].root => i = j

\* b has the blocks of a, with the same parents.
SameTree(a, b) ==
    /\ b \in Seq(Node)
    /\ Len(b) = Len(a)
    /\ \A i \in DOMAIN a : b[i].root = a[i].root /\ b[i].parent = a[i].parent

LEMMA NodeFacts ==
    ASSUME NEW nodes \in Seq(Node)
    PROVE  /\ Len(nodes) \in Nat
           /\ DOMAIN nodes = 1..Len(nodes)
           /\ \A i \in DOMAIN nodes :
                /\ nodes[i] \in Node
                /\ nodes[i].root \in Roots
                /\ nodes[i].parent \in Nat
                /\ nodes[i].weight \in Nat
                /\ nodes[i].best_child \in Nat
                /\ nodes[i].best_descendant \in Nat
                /\ nodes[i].execution_status \in Statuses
<1>1. \A x \in Node : /\ x.root \in Roots
                      /\ x.parent \in Nat
                      /\ x.weight \in Nat
                      /\ x.best_child \in Nat
                      /\ x.best_descendant \in Nat
                      /\ x.execution_status \in Statuses
  BY DEF Node
<1>2. \A i \in DOMAIN nodes : nodes[i] \in Node
  OBVIOUS
<1> QED
  BY <1>1, <1>2

LEMMA TreeFacts ==
    ASSUME NEW nodes, IsTree(nodes)
    PROVE  /\ nodes \in Seq(Node)
           /\ Len(nodes) \in Nat
           /\ DOMAIN nodes = 1..Len(nodes)
           /\ \A i \in DOMAIN nodes :
                /\ nodes[i] \in Node
                /\ nodes[i].root \in Roots
                /\ nodes[i].parent \in Nat
                /\ nodes[i].parent < i
                /\ nodes[i].parent # NoIndex => nodes[i].parent \in DOMAIN nodes
<1>1. nodes \in Seq(Node)
  BY DEF IsTree
<1>2. \A i \in DOMAIN nodes : nodes[i].parent \in Nat /\ nodes[i].parent < i
  BY <1>1, NodeFacts DEF IsTree
<1> QED
  BY <1>1, <1>2, NodeFacts DEF NoIndex

\* Induction along the tree: from a parent to its children.
LEMMA TreeInduct ==
    ASSUME NEW nodes, IsTree(nodes), NEW S,
           \A i \in DOMAIN nodes :
                (nodes[i].parent # NoIndex => nodes[i].parent \in S) => i \in S
    PROVE  \A i \in DOMAIN nodes : i \in S
<1> DEFINE n == Len(nodes)
           D == {k \in 0..n : \A i \in 1..k : i \in S}
<1>1. n \in Nat /\ DOMAIN nodes = 1..n /\ \A i \in 1..n : /\ nodes[i].parent \in Nat
                                                         /\ nodes[i].parent < i
  BY TreeFacts
<1> HIDE DEF n
<1>2. 0 \in D
  BY <1>1
<1>3. ASSUME NEW k \in 0..(n-1), k \in D PROVE k + 1 \in D
  <2>1. k + 1 \in 1..n /\ k + 1 \in 0..n
    BY <1>1
  <2>2. \A i \in 1..k : i \in S
    BY <1>3
  <2>3. nodes[k + 1].parent # NoIndex => nodes[k + 1].parent \in 1..k
    BY <1>1, <2>1 DEF NoIndex
  <2>4. k + 1 \in S
    BY <1>1, <2>1, <2>2, <2>3
  <2>5. \A i \in 1..(k + 1) : i \in S
    BY <2>2, <2>4
  <2> QED BY <2>1, <2>5
<1> HIDE DEF D
<1>4. n \in D
  <2>1. \A k \in 0..n : k \in D
    BY <1>1, <1>2, <1>3, Induct
  <2> QED BY <1>1, <2>1
<1> QED
  BY <1>1, <1>4 DEF D

\* The equation of WalkBack: a vector of parents that come before their children has a
\* walk from each index.
LEMMA WalkBackIs ==
    ASSUME NEW n \in Nat, NEW parent \in [1..n -> Nat], \A k \in 1..n : parent[k] < k
    PROVE  /\ WalkBack(parent)[NoIndex] = {}
           /\ \A j \in 1..n : WalkBack(parent)[j] = {j} \cup WalkBack(parent)[parent[j]]
<1> DEFINE T == SUBSET (1..n)
           base == {}
           step == [x \in (1..n) \X T |-> {x[1]} \cup x[2]]
           up == CHOOSE up : up = [j \in {NoIndex} \cup DOMAIN parent |->
                                    IF j = NoIndex THEN {} ELSE {j} \cup up[parent[j]]]
<1>1. base \in T /\ step \in [(1..n) \X T -> T]
  OBVIOUS
<1>2. \A k \in 1..n, x \in T : step[<<k, x>>] = {k} \cup x
  OBVIOUS
<1>3. \A k \in 1..n : parent[k] \in 0..(k - 1) /\ parent[k] \in 0..n
  OBVIOUS
<1>4. PICK g : IsRecursive(g, n, T, parent, base, step)
  <2> HIDE DEF T, base, step
  <2> QED BY <1>1, <1>3, Recursion
<1>5. {NoIndex} \cup DOMAIN parent = 0..n
  BY DEF NoIndex
<1>6. g = [j \in {NoIndex} \cup DOMAIN parent |->
                IF j = NoIndex THEN {} ELSE {j} \cup g[parent[j]]]
  <2> HIDE DEF T, step
  <2>1. g \in [0..n -> T] /\ g[0] = {}
    BY <1>4 DEF IsRecursive
  <2>2. \A j \in 1..n : g[parent[j]] \in T
    BY <1>3, <2>1
  <2>3. \A j \in 1..n : g[j] = {j} \cup g[parent[j]]
    BY <1>2, <1>4, <2>2 DEF IsRecursive
  <2>4. \A j \in 0..n : g[j] = IF j = NoIndex THEN {} ELSE {j} \cup g[parent[j]]
    BY <2>1, <2>3 DEF NoIndex
  <2> QED BY <1>5, <2>1, <2>4
<1>7. up = [j \in {NoIndex} \cup DOMAIN parent |->
                IF j = NoIndex THEN {} ELSE {j} \cup up[parent[j]]]
  BY <1>6
<1>8. WalkBack(parent) = up
  BY DEF WalkBack
<1> HIDE DEF up, T, base, step
<1>9. \A j \in 0..n : up[j] = IF j = NoIndex THEN {} ELSE {j} \cup up[parent[j]]
  BY <1>5, <1>7
<1>10. up[NoIndex] = {} /\ \A j \in 1..n : up[j] = {j} \cup up[parent[j]]
  <2>1. NoIndex \in 0..n /\ \A j \in 1..n : j \in 0..n /\ j # NoIndex
    BY DEF NoIndex
  <2> QED BY <1>9, <2>1, Zenon
<1> QED
  BY <1>8, <1>10

\* iter_nodes yields i and then what it yields from the parent of i on.
LEMMA Walk ==
    ASSUME NEW nodes, IsTree(nodes)
    PROVE  /\ iter_nodes(nodes, NoIndex) = {}
           /\ \A i \in DOMAIN nodes :
                iter_nodes(nodes, i) = {i} \cup iter_nodes(nodes, nodes[i].parent)
<1> DEFINE n == Len(nodes)
           parent == Parents(nodes)
<1>1. n \in Nat /\ DOMAIN nodes = 1..n /\ \A i \in 1..n : /\ nodes[i].parent \in Nat
                                                         /\ nodes[i].parent < i
  BY TreeFacts
<1>2. parent \in [1..n -> Nat] /\ \A i \in 1..n : parent[i] = nodes[i].parent
  BY <1>1 DEF Parents
<1> HIDE DEF n, parent
<1>3. \A i \in 1..n : parent[i] < i
  BY <1>1, <1>2
<1>4. /\ WalkBack(parent)[NoIndex] = {}
      /\ \A j \in 1..n : WalkBack(parent)[j] = {j} \cup WalkBack(parent)[parent[j]]
  BY <1>1, <1>2, <1>3, WalkBackIs
<1> QED
  BY <1>1, <1>2, <1>4 DEF iter_nodes, parent

\* The walk from i starts at i and meets only nodes before it.
LEMMA WalkIsBack ==
    ASSUME NEW nodes, IsTree(nodes), NEW i \in DOMAIN nodes
    PROVE  /\ iter_nodes(nodes, i) \subseteq 1..i
           /\ iter_nodes(nodes, i) \subseteq DOMAIN nodes
           /\ i \in iter_nodes(nodes, i)
<1> DEFINE S == {k \in DOMAIN nodes : iter_nodes(nodes, k) \subseteq 1..k}
<1>1. ASSUME NEW k \in DOMAIN nodes, nodes[k].parent # NoIndex => nodes[k].parent \in S
      PROVE  k \in S
  <2>1. nodes[k].parent \in Nat /\ nodes[k].parent < k /\ k \in Nat
    BY TreeFacts
  <2>2. iter_nodes(nodes, k) = {k} \cup iter_nodes(nodes, nodes[k].parent)
    BY Walk
  <2>3. iter_nodes(nodes, nodes[k].parent) \subseteq 1..nodes[k].parent
    BY <1>1, <2>1, Walk
  <2> QED BY <2>1, <2>2, <2>3
<1> HIDE DEF S
<1>2. i \in S
  BY <1>1, TreeInduct
<1>3. iter_nodes(nodes, i) \subseteq 1..i
  BY <1>2 DEF S
<1>4. DOMAIN nodes = 1..Len(nodes) /\ Len(nodes) \in Nat
  BY TreeFacts
<1>5. iter_nodes(nodes, i) \subseteq DOMAIN nodes
  BY <1>3, <1>4
<1> QED
  BY <1>3, <1>5, Walk

\* A walk that meets j goes on like the walk from j.
LEMMA WalkGoesOn ==
    ASSUME NEW nodes, IsTree(nodes), NEW i \in DOMAIN nodes, NEW j \in iter_nodes(nodes, i)
    PROVE  iter_nodes(nodes, j) \subseteq iter_nodes(nodes, i)
<1> DEFINE S == {k \in DOMAIN nodes :
                    \A x \in iter_nodes(nodes, k) : iter_nodes(nodes, x) \subseteq iter_nodes(nodes, k)}
<1>1. ASSUME NEW k \in DOMAIN nodes, nodes[k].parent # NoIndex => nodes[k].parent \in S
      PROVE  k \in S
  <2>1. iter_nodes(nodes, k) = {k} \cup iter_nodes(nodes, nodes[k].parent)
    BY Walk
  <2>2. \A x \in iter_nodes(nodes, nodes[k].parent) :
            iter_nodes(nodes, x) \subseteq iter_nodes(nodes, nodes[k].parent)
    BY <1>1, Walk
  <2> QED BY <2>1, <2>2
<1> HIDE DEF S
<1>2. i \in S
  BY <1>1, TreeInduct
<1> QED
  BY <1>2 DEF S

\* Of two nodes that a walk meets, the earlier one is met from the later one on.
LEMMA WalkIsChain ==
    ASSUME NEW nodes, IsTree(nodes), NEW i \in DOMAIN nodes,
           NEW j \in iter_nodes(nodes, i), NEW k \in iter_nodes(nodes, i), j <= k
    PROVE  j \in iter_nodes(nodes, k)
<1> DEFINE S == {x \in DOMAIN nodes : \A y, z \in iter_nodes(nodes, x) :
                    y <= z => y \in iter_nodes(nodes, z)}
<1>1. ASSUME NEW x \in DOMAIN nodes, nodes[x].parent # NoIndex => nodes[x].parent \in S
      PROVE  x \in S
  <2> DEFINE up == iter_nodes(nodes, nodes[x].parent)
  <2>1. iter_nodes(nodes, x) = {x} \cup up
    BY Walk
  <2>2. \A y, z \in up : y <= z => y \in iter_nodes(nodes, z)
    BY <1>1, Walk
  <2>3. \A y \in up : y \in Nat /\ y < x /\ x \in Nat
    <3>1. nodes[x].parent \in Nat /\ nodes[x].parent < x /\ x \in Nat
      BY TreeFacts
    <3>2. nodes[x].parent # NoIndex => nodes[x].parent \in DOMAIN nodes
      BY TreeFacts
    <3>3. nodes[x].parent # NoIndex => up \subseteq 1..nodes[x].parent
      BY <3>2, WalkIsBack
    <3>4. up \subseteq 1..nodes[x].parent
      BY <3>3, Walk
    <3> HIDE DEF up
    <3> QED BY <3>1, <3>4
  <2> HIDE DEF up
  <2>4. ASSUME NEW y \in iter_nodes(nodes, x), NEW z \in iter_nodes(nodes, x), y <= z
        PROVE  y \in iter_nodes(nodes, z)
    <3>1. CASE z = x
      BY <3>1
    <3>2. CASE z \in up /\ y \in up
      BY <2>2, <2>4, <3>2
    <3>3. CASE z \in up /\ y = x
      BY <2>3, <2>4, <3>3
    <3> QED BY <2>1, <3>1, <3>2, <3>3
  <2> QED BY <2>4
<1> HIDE DEF S
<1>2. i \in S
  BY <1>1, TreeInduct
<1> QED
  BY <1>2 DEF S

\* What the walk meets depends on the parents only.
LEMMA SameWalk ==
    ASSUME NEW a, IsTree(a), NEW b, SameTree(a, b)
    PROVE  /\ IsTree(b)
           /\ DOMAIN b = DOMAIN a
           /\ \A i : iter_nodes(b, i) = iter_nodes(a, i)
<1>1. DOMAIN a = 1..Len(a) /\ DOMAIN b = 1..Len(b) /\ b \in Seq(Node) /\ Len(b) = Len(a)
  BY TreeFacts, NodeFacts DEF SameTree
<1>2. \A i \in DOMAIN a : b[i].root = a[i].root /\ b[i].parent = a[i].parent
  BY DEF SameTree
<1>3. Parents(b) = Parents(a)
  BY <1>1, <1>2 DEF Parents
<1>4. \A i \in DOMAIN a : a[i].parent # NoIndex => a[i].parent \in DOMAIN a
  BY TreeFacts
<1>5. \A i \in DOMAIN a :
        /\ a[i].parent < i
        /\ a[i].parent # NoIndex => a[a[i].parent].root = Block[a[i].root].parent
  BY DEF IsTree
<1>6. \A i, j \in DOMAIN a : a[i].root = a[j].root => i = j
  BY DEF IsTree
<1>7. \A i \in DOMAIN b :
        /\ b[i].parent < i
        /\ b[i].parent # NoIndex => b[b[i].parent].root = Block[b[i].root].parent
  BY <1>1, <1>2, <1>4, <1>5
<1>8. \A i, j \in DOMAIN b : b[i].root = b[j].root => i = j
  BY <1>1, <1>2, <1>6
<1> QED
  BY <1>1, <1>3, <1>7, <1>8 DEF IsTree, iter_nodes

-----------------------------------------------------------------------------
(***************************************************************************)
(* Best child and best descendant                                          *)
(***************************************************************************)

\* The type of the struct ProtoArray.
ProtoArrays == [nodes : Seq(Node), justified : Checkpoints, finalized : Checkpoints,
                previous_boost : [root : Roots \cup {ZeroHash}, score : Nat]]

\* x may be the best child of i, and y its best descendant.
LinkOK(nodes, i, x, y) ==
    /\ x # NoIndex => /\ x \in DOMAIN nodes
                      /\ nodes[x].parent = i
                      /\ y # NoIndex
                      /\ x \in iter_nodes(nodes, y)
    /\ y # NoIndex => /\ y \in DOMAIN nodes
                      /\ y # i
                      /\ i \in iter_nodes(nodes, y)

LinksOK(nodes) ==
    \A i \in DOMAIN nodes : LinkOK(nodes, i, nodes[i].best_child, nodes[i].best_descendant)

\* b differs from a in the links only.
Relinked(a, b) ==
    /\ SameTree(a, b)
    /\ \A i \in DOMAIN a : /\ b[i].weight = a[i].weight
                           /\ b[i].execution_status = a[i].execution_status

\* b has the statuses, or the links, of a.
SameStatus(a, b) == \A i \in DOMAIN a : b[i].execution_status = a[i].execution_status
SameLinks(a, b) ==
    \A i \in DOMAIN a : /\ b[i].best_child = a[i].best_child
                        /\ b[i].best_descendant = a[i].best_descendant

LEMMA SameLinkOK ==
    ASSUME NEW a, IsTree(a), NEW b, SameTree(a, b), NEW i \in DOMAIN a, NEW x, NEW y,
           LinkOK(a, i, x, y)
    PROVE  LinkOK(b, i, x, y)
<1>1. DOMAIN b = DOMAIN a /\ \A k : iter_nodes(b, k) = iter_nodes(a, k)
  BY SameWalk
<1>2. \A k \in DOMAIN a : b[k].parent = a[k].parent
  BY DEF SameTree
<1> QED
  BY <1>1, <1>2 DEF LinkOK

LEMMA SameLinksOK ==
    ASSUME NEW a, IsTree(a), NEW b, SameTree(a, b), SameLinks(a, b), LinksOK(a)
    PROVE  LinksOK(b)
<1>1. DOMAIN b = DOMAIN a
  BY SameWalk
<1>2. ASSUME NEW i \in DOMAIN a
      PROVE  LinkOK(b, i, b[i].best_child, b[i].best_descendant)
  <2>1. LinkOK(a, i, a[i].best_child, a[i].best_descendant)
    BY DEF LinksOK
  <2>2. /\ b[i].best_child = a[i].best_child
        /\ b[i].best_descendant = a[i].best_descendant
    BY DEF SameLinks
  <2> QED BY <2>1, <2>2, SameLinkOK
<1> QED
  BY <1>1, <1>2 DEF LinksOK

\* What maybe_update_best_child_and_descendant writes.
Link(pa, parent, x, y) == [pa EXCEPT !.nodes[parent].best_child = x,
                                     !.nodes[parent].best_descendant = y]

LEMMA LinkCases ==
    ASSUME NEW pa, NEW parent, NEW child, NEW slot
    PROVE  LET nodes == pa.nodes
               below == nodes[child].best_descendant
           IN  \/ maybe_update_best_child_and_descendant(pa, parent, child, slot)
                    = Link(pa, parent, NoIndex, NoIndex)
               \/ maybe_update_best_child_and_descendant(pa, parent, child, slot)
                    = Link(pa, parent, child, IF below = NoIndex THEN child ELSE below)
               \/ maybe_update_best_child_and_descendant(pa, parent, child, slot)
                    = Link(pa, parent, nodes[parent].best_child, nodes[parent].best_descendant)
<1> DEFINE nodes == pa.nodes
           best == nodes[parent].best_child
           below == nodes[child].best_descendant
           none == <<NoIndex, NoIndex>>
           change == <<child, IF below = NoIndex THEN child ELSE below>>
           keep == <<best, nodes[parent].best_descendant>>
           leads == node_leads_to_viable_head(pa, child, slot)
           wins == Outranks(nodes[child], leads, nodes[best],
                            node_leads_to_viable_head(pa, best, slot))
           to == CASE best = child -> IF leads THEN change ELSE none
                   [] best = NoIndex -> IF leads THEN change ELSE keep
                   [] OTHER -> IF wins THEN change ELSE keep
<1>1. maybe_update_best_child_and_descendant(pa, parent, child, slot)
        = Link(pa, parent, to[1], to[2])
  BY Zenon DEF maybe_update_best_child_and_descendant, Link
<1>2. to \in {none, change, keep}
  <2> HIDE DEF none, change, keep, leads, wins, best
  <2>1. CASE best = child
    BY <2>1
  <2>2. CASE best # child /\ best = NoIndex
    BY <2>2
  <2>3. CASE best # child /\ best # NoIndex
    BY <2>3
  <2> QED BY <2>1, <2>2, <2>3
<1> HIDE DEF to
<1> QED
  BY <1>1, <1>2

LEMMA LinkFacts ==
    ASSUME NEW pa \in ProtoArrays, NEW p \in DOMAIN pa.nodes, NEW x \in Nat, NEW y \in Nat
    PROVE  /\ Link(pa, p, x, y) \in ProtoArrays
           /\ Relinked(pa.nodes, Link(pa, p, x, y).nodes)
           /\ \A i \in DOMAIN pa.nodes :
                /\ Link(pa, p, x, y).nodes[i].best_child
                    = IF i = p THEN x ELSE pa.nodes[i].best_child
                /\ Link(pa, p, x, y).nodes[i].best_descendant
                    = IF i = p THEN y ELSE pa.nodes[i].best_descendant
<1> DEFINE nodes == pa.nodes
           node == [nodes[p] EXCEPT !.best_child = x, !.best_descendant = y]
           b == [nodes EXCEPT ![p] = node]
<1>1. nodes \in Seq(Node) /\ nodes[p] \in Node
  BY DEF ProtoArrays
<1>2. /\ node \in Node
      /\ node.root = nodes[p].root /\ node.parent = nodes[p].parent
      /\ node.weight = nodes[p].weight
      /\ node.execution_status = nodes[p].execution_status
      /\ node.best_child = x /\ node.best_descendant = y
  BY <1>1 DEF Node
<1>3. Link(pa, p, x, y) = [pa EXCEPT !.nodes = b]
  BY <1>1 DEF Link, ProtoArrays, Node
<1> HIDE DEF node
<1>4. b \in Seq(Node) /\ Len(b) = Len(nodes) /\ DOMAIN b = DOMAIN nodes
  BY <1>1, <1>2
<1>5. \A i \in DOMAIN nodes : b[i] = IF i = p THEN node ELSE nodes[i]
  BY <1>1
<1> HIDE DEF b
<1>6. Link(pa, p, x, y) \in ProtoArrays /\ Link(pa, p, x, y).nodes = b
  BY <1>3, <1>4 DEF ProtoArrays
<1> QED
  BY <1>2, <1>4, <1>5, <1>6 DEF Relinked, SameTree

\* The call for a node and its parent keeps the links inside the tree.
LEMMA UpdateKeepsLinks ==
    ASSUME NEW pa \in ProtoArrays, IsTree(pa.nodes), LinksOK(pa.nodes), NEW slot,
           NEW i \in DOMAIN pa.nodes, NEW p, p = pa.nodes[i].parent, p # NoIndex
    PROVE  LET q == maybe_update_best_child_and_descendant(pa, p, i, slot)
           IN  q \in ProtoArrays /\ Relinked(pa.nodes, q.nodes) /\ LinksOK(q.nodes)
<1> DEFINE nodes == pa.nodes
           q == maybe_update_best_child_and_descendant(pa, p, i, slot)
           below == nodes[i].best_descendant
           last == IF below = NoIndex THEN i ELSE below
<1>1. p \in DOMAIN nodes /\ p \in Nat /\ p < i /\ nodes \in Seq(Node) /\ i \in Nat
  BY TreeFacts
<1>2. \A k \in DOMAIN nodes : nodes[k].best_child \in Nat /\ nodes[k].best_descendant \in Nat
  BY <1>1, NodeFacts
<1>3. PICK x \in Nat, y \in Nat : q = Link(pa, p, x, y) /\ LinkOK(nodes, p, x, y)
  <2>1. LinkOK(nodes, p, NoIndex, NoIndex)
    BY DEF LinkOK
  <2>2. LinkOK(nodes, p, i, last)
    <3>1. p \in iter_nodes(nodes, i) /\ i \in iter_nodes(nodes, i)
      BY <1>1, Walk, WalkIsBack
    <3>2. CASE below = NoIndex
      BY <1>1, <3>1, <3>2 DEF LinkOK
    <3>3. CASE below # NoIndex
      <4>1. below \in DOMAIN nodes /\ i \in iter_nodes(nodes, below)
        BY <3>3 DEF LinksOK, LinkOK
      <4>2. p \in iter_nodes(nodes, below)
        BY <3>1, <4>1, WalkGoesOn
      <4>3. i \in 1..below /\ below \in Nat
        BY <1>2, <4>1, WalkIsBack
      <4>4. below # p
        BY <1>1, <4>3
      <4>5. i # NoIndex => i \in iter_nodes(nodes, below)
        BY <4>1
      <4> HIDE DEF below
      <4> QED BY <3>3, <4>1, <4>2, <4>4, <4>5 DEF LinkOK
    <3> QED BY <3>2, <3>3
  <2>3. LinkOK(nodes, p, nodes[p].best_child, nodes[p].best_descendant)
    BY <1>1 DEF LinksOK
  <2>4. NoIndex \in Nat /\ i \in Nat /\ last \in Nat
    BY <1>1, <1>2 DEF NoIndex
  <2>5. \/ q = Link(pa, p, NoIndex, NoIndex)
        \/ q = Link(pa, p, i, last)
        \/ q = Link(pa, p, nodes[p].best_child, nodes[p].best_descendant)
    BY LinkCases
  <2> HIDE DEF q, last
  <2> QED BY <1>1, <1>2, <2>1, <2>2, <2>3, <2>4, <2>5
<1> HIDE DEF q, below, last
<1>4. /\ q \in ProtoArrays
      /\ Relinked(nodes, q.nodes)
      /\ \A k \in DOMAIN nodes :
            /\ q.nodes[k].best_child = IF k = p THEN x ELSE nodes[k].best_child
            /\ q.nodes[k].best_descendant = IF k = p THEN y ELSE nodes[k].best_descendant
  <2> DEFINE l == Link(pa, p, x, y)
  <2>1. /\ l \in ProtoArrays
        /\ Relinked(nodes, l.nodes)
        /\ \A k \in DOMAIN nodes :
              /\ l.nodes[k].best_child = IF k = p THEN x ELSE nodes[k].best_child
              /\ l.nodes[k].best_descendant = IF k = p THEN y ELSE nodes[k].best_descendant
    <3>1. p \in DOMAIN pa.nodes
      BY <1>1
    <3>2. l \in ProtoArrays
      BY <3>1, LinkFacts
    <3>3. Relinked(nodes, l.nodes)
      BY <3>1, LinkFacts
    <3> QED BY <3>1, <3>2, <3>3, LinkFacts, SMTT(30)
  <2> QED BY <1>3, <2>1
<1>5. SameTree(nodes, q.nodes) /\ DOMAIN q.nodes = DOMAIN nodes
  BY <1>4, SameWalk DEF Relinked
<1>6. ASSUME NEW k \in DOMAIN nodes
      PROVE  LinkOK(q.nodes, k, q.nodes[k].best_child, q.nodes[k].best_descendant)
  <2>1. LinkOK(nodes, k, nodes[k].best_child, nodes[k].best_descendant)
    BY DEF LinksOK
  <2>2. LinkOK(nodes, k, q.nodes[k].best_child, q.nodes[k].best_descendant)
    BY <1>3, <1>4, <2>1
  <2> QED BY <1>5, <2>2, SameLinkOK
<1>7. LinksOK(q.nodes)
  BY <1>5, <1>6 DEF LinksOK
<1> QED
  BY <1>4, <1>7 DEF q

LEMMA RelinkedTwice ==
    ASSUME NEW a, IsTree(a), NEW b, NEW c, Relinked(a, b), Relinked(b, c)
    PROVE  Relinked(a, c)
<1>1. DOMAIN b = DOMAIN a
  BY SameWalk DEF Relinked
<1> QED
  BY <1>1 DEF Relinked, SameTree

\* So does the second loop of apply_score_changes.
LEMMA UpdateBestKeepsLinks ==
    ASSUME NEW pa \in ProtoArrays, IsTree(pa.nodes), LinksOK(pa.nodes), NEW slot
    PROVE  /\ UpdateBest(pa, slot) \in ProtoArrays
           /\ Relinked(pa.nodes, UpdateBest(pa, slot).nodes)
           /\ LinksOK(UpdateBest(pa, slot).nodes)
<1> DEFINE n == Len(pa.nodes)
           T == {q \in ProtoArrays : Relinked(pa.nodes, q.nodes) /\ LinksOK(q.nodes)}
           Step(acc, i) ==
                IF acc.nodes[i].parent = NoIndex THEN acc
                ELSE maybe_update_best_child_and_descendant(acc, acc.nodes[i].parent, i, slot)
           step == [x \in (1..n) \X T |-> Step(x[2], n + 1 - x[1])]
           after == CHOOSE after : after = [k \in 0..n |->
                        IF k = 0 THEN pa ELSE Step(after[k - 1], n + 1 - k)]
<1>1. n \in Nat /\ DOMAIN pa.nodes = 1..n /\ pa.nodes \in Seq(Node)
  BY TreeFacts
<1>2. pa \in T
  BY <1>1 DEF Relinked, SameTree
<1>3. ASSUME NEW q \in T, NEW i \in 1..n PROVE Step(q, i) \in T
  <2>1. q \in ProtoArrays /\ Relinked(pa.nodes, q.nodes) /\ LinksOK(q.nodes)
    OBVIOUS
  <2>2. IsTree(q.nodes) /\ i \in DOMAIN q.nodes
    BY <1>1, <2>1, SameWalk DEF Relinked
  <2>3. CASE q.nodes[i].parent = NoIndex
    BY <2>3
  <2>4. CASE q.nodes[i].parent # NoIndex
    <3> DEFINE r == maybe_update_best_child_and_descendant(q, q.nodes[i].parent, i, slot)
    <3>1. r \in ProtoArrays /\ Relinked(q.nodes, r.nodes) /\ LinksOK(r.nodes)
      BY <2>1, <2>2, <2>4, UpdateKeepsLinks
    <3>2. Step(q, i) = r
      BY <2>4
    <3> HIDE DEF r, Step
    <3>3. Relinked(pa.nodes, r.nodes)
      BY <2>1, <3>1, RelinkedTwice
    <3> QED BY <3>1, <3>2, <3>3
  <2> QED BY <2>3, <2>4
<1>4. UpdateBest(pa, slot) = after[n]
  BY DEF UpdateBest
<1> HIDE DEF T, n, Step
<1>5. \A k \in 1..n : n + 1 - k \in 1..n
  BY <1>1
<1>6. step \in [(1..n) \X T -> T] /\ \A k \in 1..n, q \in T : step[<<k, q>>] = Step(q, n + 1 - k)
  BY <1>3, <1>5
<1>7. PICK g : IsLoop(g, n, T, pa, step)
  <2> HIDE DEF step
  <2> QED BY <1>1, <1>2, <1>6, Loop
<1> HIDE DEF step
<1>8. g = [k \in 0..n |-> IF k = 0 THEN pa ELSE Step(g[k - 1], n + 1 - k)]
  <2>1. g \in [0..n -> T] /\ g[0] = pa
    BY <1>7 DEF IsLoop
  <2>2. \A k \in 1..n : g[k - 1] \in T
    BY <1>1, <2>1
  <2>3. \A k \in 1..n : g[k] = Step(g[k - 1], n + 1 - k)
    BY <1>6, <1>7, <2>2 DEF IsLoop
  <2> QED BY <1>1, <2>1, <2>3
<1>9. after = [k \in 0..n |-> IF k = 0 THEN pa ELSE Step(after[k - 1], n + 1 - k)]
  BY <1>8
<1> HIDE DEF after
<1>10. after[0] = pa /\ \A k \in 1..n : after[k] = Step(after[k - 1], n + 1 - k)
  BY <1>1, <1>9
<1>11. \A k \in 1..n : after[k - 1] \in T => after[k] \in T
  BY <1>3, <1>5, <1>10
<1>12. after[n] \in T
  <2>1. \A k \in 0..n : after[k] \in T
    BY <1>1, <1>2, <1>10, <1>11, LoopInvariant
  <2> QED BY <1>1, <2>1
<1> QED
  BY <1>4, <1>12 DEF T

-----------------------------------------------------------------------------
(***************************************************************************)
(* Weights                                                                 *)
(***************************************************************************)

\* b differs from a in the weights only.
Reweighted(a, b) == SameTree(a, b) /\ SameLinks(a, b) /\ SameStatus(a, b)

LEMMA BalanceIsNat ==
    ASSUME NEW balances \in Seq(Nat), NEW v
    PROVE  BalanceOf(balances, v) \in Nat
BY DEF BalanceOf

LEMMA FractionIsNat ==
    ASSUME NEW balances \in Seq(Nat), NEW percent \in Nat
    PROVE  calculate_committee_fraction(balances, percent) \in Nat
<1>1. Len(balances) \in Nat /\ balances \in [1..Len(balances) -> Nat]
  OBVIOUS
<1>2. TotalBalance(balances) \in Nat
  BY <1>1, SumIsNat DEF TotalBalance
<1>3. SlotsPerEpoch \in Nat /\ SlotsPerEpoch > 0
  BY ParametersAssumption
<1> DEFINE perSlot == TotalBalance(balances) \div SlotsPerEpoch
<1>4. perSlot \in Nat
  BY <1>2, <1>3
<1> HIDE DEF perSlot
<1>5. perSlot * percent \in Nat
  BY <1>4
<1>6. (perSlot * percent) \div 100 \in Nat
  BY <1>5
<1> QED
  BY <1>6 DEF calculate_committee_fraction, perSlot

\* compute_deltas computes integers.
LEMMA DeltasAreInts ==
    ASSUME NEW nodes \in Seq(Node), NEW votes, NEW old \in Seq(Nat), NEW new \in Seq(Nat),
           NEW equivocating
    PROVE  compute_deltas(nodes, votes, old, new, equivocating) \in [0..Len(nodes) -> Int]
<1> DEFINE Lost(v, root) ==
               IF /\ votes[v].current = root
                  /\ v \in equivocating \/ VoteMoves(votes[v], v, old, new)
               THEN BalanceOf(old, v) ELSE 0
           Gained(v, root) ==
               IF /\ votes[v].next = root
                  /\ v \notin equivocating
                  /\ VoteMoves(votes[v], v, old, new)
               THEN BalanceOf(new, v) ELSE 0
           moved(root) == [v \in Validators |-> Gained(v, root) - Lost(v, root)]
           delta(i) == IF i = NoIndex THEN 0 ELSE SumTo(moved(nodes[i].root), NumValidators)
<1>1. \A v, root : Lost(v, root) \in Int /\ Gained(v, root) \in Int
  BY BalanceIsNat
<1>2. compute_deltas(nodes, votes, old, new, equivocating)
        = [i \in 0..Len(nodes) |-> delta(i)]
  BY DEF compute_deltas
<1> HIDE DEF Lost, Gained
<1>3. \A root : moved(root) \in [1..NumValidators -> Int]
  BY <1>1 DEF Validators
<1> HIDE DEF moved
<1>4. NumValidators \in Nat
  BY ParametersAssumption
<1>5. \A root : SumTo(moved(root), NumValidators) \in Int
  BY <1>3, <1>4, SumIsInt
<1>6. \A i : delta(i) \in Int
  BY <1>5
<1> HIDE DEF delta
<1> QED
  BY <1>2, <1>6

\* Adding a delta that does not take a weight below zero.
LEMMA ReweightOne ==
    ASSUME NEW nodes \in Seq(Node), NEW i \in DOMAIN nodes, NEW delta \in Int,
           nodes[i].weight + delta >= 0
    PROVE  /\ [nodes EXCEPT ![i].weight = @ + delta] \in Seq(Node)
           /\ Reweighted(nodes, [nodes EXCEPT ![i].weight = @ + delta])
<1> DEFINE w == nodes[i].weight + delta
           node == [nodes[i] EXCEPT !.weight = w]
           b == [nodes EXCEPT ![i] = node]
<1>1. nodes[i] \in Node /\ nodes[i].weight \in Nat
  BY NodeFacts
<1>w. w \in Nat
  BY <1>1
<1>2. /\ node \in Node
      /\ node.root = nodes[i].root /\ node.parent = nodes[i].parent
      /\ node.execution_status = nodes[i].execution_status
      /\ node.best_child = nodes[i].best_child
      /\ node.best_descendant = nodes[i].best_descendant
  <2> HIDE DEF w
  <2> QED BY <1>1, <1>w DEF Node
<1>3. [nodes EXCEPT ![i].weight = @ + delta] = b
  OBVIOUS
<1> HIDE DEF node
<1>4. b \in Seq(Node) /\ Len(b) = Len(nodes)
  BY <1>2
<1>5. \A k \in DOMAIN nodes : b[k] = IF k = i THEN node ELSE nodes[k]
  OBVIOUS
<1> HIDE DEF b
<1>6. Reweighted(nodes, b)
  BY <1>2, <1>4, <1>5 DEF Reweighted, SameTree, SameLinks, SameStatus
<1> QED
  BY <1>3, <1>4, <1>6

LEMMA ReweightedTwice ==
    ASSUME NEW a, IsTree(a), NEW b, NEW c, Reweighted(a, b), Reweighted(b, c)
    PROVE  Reweighted(a, c)
<1>1. DOMAIN b = DOMAIN a
  BY SameWalk DEF Reweighted
<1> QED
  BY <1>1 DEF Reweighted, SameTree, SameLinks, SameStatus

\* One step of the first loop of apply_score_changes, on the accumulator [nodes, deltas,
\* score, ok].
WeightStep(pa, boost, acc, i) ==
    LET node == acc.nodes[i]
        invalid == node.execution_status = "Invalid"
        boosted == boost.root = node.root
        delta == IF invalid THEN 0 - node.weight
                 ELSE acc.deltas[i] - PreviousBoost(pa, node.root)
                                + (IF boosted THEN boost.score ELSE 0)
    IN  IF ~acc.ok \/ node.weight + delta < 0 THEN [acc EXCEPT !.ok = FALSE]
        ELSE [nodes |-> [acc.nodes EXCEPT ![i].weight = @ + delta],
              deltas |-> [acc.deltas EXCEPT ![node.parent] = @ + delta],
              score |-> IF boosted /\ ~invalid THEN boost.score ELSE acc.score,
              ok |-> TRUE]

\* What the loop keeps.
WeightAccs(pa) ==
    {acc \in [nodes : Seq(Node), deltas : [0..Len(pa.nodes) -> Int], score : Nat, ok : BOOLEAN] :
        Reweighted(pa.nodes, acc.nodes)}

LEMMA WeightStepKeeps ==
    ASSUME NEW pa \in ProtoArrays, IsTree(pa.nodes), NEW boost, boost.score \in Nat,
           NEW acc \in WeightAccs(pa), NEW i \in DOMAIN pa.nodes
    PROVE  WeightStep(pa, boost, acc, i) \in WeightAccs(pa)
<1> DEFINE n == Len(pa.nodes)
           node == acc.nodes[i]
           invalid == node.execution_status = "Invalid"
           boosted == boost.root = node.root
           delta == IF invalid THEN 0 - node.weight
                    ELSE acc.deltas[i] - PreviousBoost(pa, node.root)
                                   + (IF boosted THEN boost.score ELSE 0)
           new == [acc.nodes EXCEPT ![i].weight = @ + delta]
           deltas == [acc.deltas EXCEPT ![node.parent] = @ + delta]
           score == IF boosted /\ ~invalid THEN boost.score ELSE acc.score
<1>1. /\ acc \in [nodes : Seq(Node), deltas : [0..n -> Int], score : Nat, ok : BOOLEAN]
      /\ Reweighted(pa.nodes, acc.nodes)
  BY DEF WeightAccs
<1>2. /\ acc.nodes \in Seq(Node) /\ acc.deltas \in [0..n -> Int]
      /\ acc.score \in Nat /\ acc.ok \in BOOLEAN
  BY <1>1
<1>3. IsTree(acc.nodes) /\ DOMAIN acc.nodes = DOMAIN pa.nodes
  BY <1>1, SameWalk DEF Reweighted
<1>4. n \in Nat /\ DOMAIN pa.nodes = 1..n /\ i \in 0..n
  BY TreeFacts
<1>5. node.weight \in Nat /\ node.parent \in 0..n
  <2>1. node.parent \in Nat /\ node.parent < i
    BY <1>3, TreeFacts
  <2> QED BY <1>2, <1>3, <1>4, <2>1, NodeFacts
<1>6. PreviousBoost(pa, node.root) \in Nat
  <2>1. pa.previous_boost.score \in Nat
    BY DEF ProtoArrays
  <2> QED BY <2>1 DEF PreviousBoost
<1>7. delta \in Int
  <2>1. acc.deltas[i] \in Int
    BY <1>2, <1>4
  <2> HIDE DEF node, invalid, boosted
  <2> QED BY <1>5, <1>6, <2>1
<1> HIDE DEF delta
<1>8. WeightStep(pa, boost, acc, i)
        = IF ~acc.ok \/ node.weight + delta < 0 THEN [acc EXCEPT !.ok = FALSE]
          ELSE [nodes |-> new, deltas |-> deltas, score |-> score, ok |-> TRUE]
  BY DEF WeightStep, delta
<1>9. CASE ~acc.ok \/ node.weight + delta < 0
  <2>1. WeightStep(pa, boost, acc, i) = [acc EXCEPT !.ok = FALSE]
    BY <1>8, <1>9
  <2> HIDE DEF n
  <2> QED BY <1>1, <2>1 DEF WeightAccs, n
<1>10. CASE acc.ok /\ node.weight + delta >= 0
  <2>1. WeightStep(pa, boost, acc, i)
          = [nodes |-> new, deltas |-> deltas, score |-> score, ok |-> TRUE]
    BY <1>5, <1>7, <1>8, <1>10
  <2>2. new \in Seq(Node) /\ Reweighted(acc.nodes, new)
    BY <1>2, <1>3, <1>7, <1>10, ReweightOne
  <2>3. Reweighted(pa.nodes, new)
    BY <1>1, <2>2, ReweightedTwice
  <2>4. deltas \in [0..n -> Int]
    <3> DEFINE parent == node.parent
               old == acc.deltas
    <3>1. parent \in 0..n /\ old \in [0..n -> Int]
      BY <1>2, <1>5
    <3> HIDE DEF parent, old, n
    <3>2. old[parent] + delta \in Int
      BY <1>7, <3>1
    <3>3. [old EXCEPT ![parent] = old[parent] + delta] \in [0..n -> Int]
      BY <3>1, <3>2
    <3> QED BY <3>3 DEF parent, old
  <2>5. score \in Nat
    BY <1>2
  <2> HIDE DEF new, deltas, score
  <2> QED BY <2>1, <2>2, <2>3, <2>4, <2>5 DEF WeightAccs
<1> QED
  BY <1>2, <1>5, <1>7, <1>9, <1>10

\* The first loop of apply_score_changes changes weights only, and leaves none below zero.
LEMMA UpdateWeightsKeeps ==
    ASSUME NEW pa \in ProtoArrays, IsTree(pa.nodes), NEW boost, boost.score \in Nat,
           NEW deltas \in [0..Len(pa.nodes) -> Int]
    PROVE  UpdateWeights(pa, deltas, boost) \in WeightAccs(pa)
<1> DEFINE n == Len(pa.nodes)
           T == WeightAccs(pa)
           Step(acc, i) == WeightStep(pa, boost, acc, i)
           base == [nodes |-> pa.nodes, deltas |-> deltas, score |-> 0, ok |-> TRUE]
           step == [x \in (1..n) \X T |-> Step(x[2], n + 1 - x[1])]
           after == CHOOSE after : after = [k \in 0..n |->
                        IF k = 0 THEN base ELSE Step(after[k - 1], n + 1 - k)]
<1>1. n \in Nat /\ DOMAIN pa.nodes = 1..n /\ pa.nodes \in Seq(Node)
  BY TreeFacts
<1>2. base \in T
  <2>1. Reweighted(pa.nodes, pa.nodes)
    BY <1>1 DEF Reweighted, SameTree, SameLinks, SameStatus
  <2> QED BY <1>1, <2>1 DEF WeightAccs
<1>3. ASSUME NEW acc \in T, NEW i \in 1..n PROVE Step(acc, i) \in T
  BY <1>1, WeightStepKeeps
<1>4. UpdateWeights(pa, deltas, boost) = after[n]
  BY DEF UpdateWeights, WeightStep
<1> HIDE DEF T, n, Step, base
<1>5. \A k \in 1..n : n + 1 - k \in 1..n
  BY <1>1
<1>6. step \in [(1..n) \X T -> T] /\ \A k \in 1..n, q \in T : step[<<k, q>>] = Step(q, n + 1 - k)
  BY <1>3, <1>5
<1>7. PICK g : IsLoop(g, n, T, base, step)
  <2> HIDE DEF step
  <2> QED BY <1>1, <1>2, <1>6, Loop
<1> HIDE DEF step
<1>8. g = [k \in 0..n |-> IF k = 0 THEN base ELSE Step(g[k - 1], n + 1 - k)]
  <2>1. g \in [0..n -> T] /\ g[0] = base
    BY <1>7 DEF IsLoop
  <2>2. \A k \in 1..n : g[k - 1] \in T
    BY <1>1, <2>1
  <2>3. \A k \in 1..n : g[k] = Step(g[k - 1], n + 1 - k)
    BY <1>6, <1>7, <2>2 DEF IsLoop
  <2> QED BY <1>1, <2>1, <2>3
<1>9. after = [k \in 0..n |-> IF k = 0 THEN base ELSE Step(after[k - 1], n + 1 - k)]
  BY <1>8
<1> HIDE DEF after
<1>10. after[0] = base /\ \A k \in 1..n : after[k] = Step(after[k - 1], n + 1 - k)
  BY <1>1, <1>9
<1>11. \A k \in 1..n : after[k - 1] \in T => after[k] \in T
  BY <1>3, <1>5, <1>10
<1>12. after[n] \in T
  <2>1. \A k \in 0..n : after[k] \in T
    BY <1>1, <1>2, <1>10, <1>11, LoopInvariant
  <2> QED BY <1>1, <2>1
<1> QED
  BY <1>4, <1>12 DEF T

\* apply_score_changes, whether it succeeds or not, leaves the blocks and their statuses,
\* no weight below zero, and links inside the tree.
LEMMA ScoreChangesKeep ==
    ASSUME NEW pa \in ProtoArrays, IsTree(pa.nodes), LinksOK(pa.nodes),
           NEW deltas \in [0..Len(pa.nodes) -> Int],
           NEW justified \in Checkpoints, NEW finalized \in Checkpoints,
           NEW balances \in Seq(Nat), NEW boost_root \in Roots \cup {ZeroHash}, NEW slot
    PROVE  LET r == apply_score_changes(pa, deltas, justified, finalized, balances,
                                        boost_root, slot)
           IN  /\ r.pa \in ProtoArrays
               /\ SameTree(pa.nodes, r.pa.nodes)
               /\ SameStatus(pa.nodes, r.pa.nodes)
               /\ LinksOK(r.pa.nodes)
<1> DEFINE r == apply_score_changes(pa, deltas, justified, finalized, balances,
                                    boost_root, slot)
           boost == [root |-> boost_root,
                     score |-> calculate_committee_fraction(balances, ProposerScoreBoost)]
           done == UpdateWeights(pa, deltas, boost)
           scored == [pa EXCEPT !.justified = justified, !.finalized = finalized,
                                !.nodes = done.nodes]
           boosted == [scored EXCEPT
                        !.previous_boost = [root |-> boost_root, score |-> done.score]]
<1>1. r.pa = IF done.ok THEN UpdateBest(boosted, slot) ELSE scored
  BY DEF apply_score_changes
<1>2. boost.score \in Nat
  BY FractionIsNat, ParametersAssumption
<1> HIDE DEF boost
<1>3. done \in WeightAccs(pa)
  BY <1>2, UpdateWeightsKeeps
<1> HIDE DEF done, r
<1>4. done.nodes \in Seq(Node) /\ done.score \in Nat /\ Reweighted(pa.nodes, done.nodes)
  BY <1>3 DEF WeightAccs
<1>5. scored \in ProtoArrays /\ scored.nodes = done.nodes
  BY <1>4 DEF ProtoArrays
<1>6. boosted \in ProtoArrays /\ boosted.nodes = done.nodes
  <2>1. [root |-> boost_root, score |-> done.score]
            \in [root : Roots \cup {ZeroHash}, score : Nat]
    BY <1>4
  <2> HIDE DEF scored
  <2> QED BY <1>5, <2>1 DEF ProtoArrays
<1> HIDE DEF scored, boosted
<1>7. /\ SameTree(pa.nodes, done.nodes) /\ SameStatus(pa.nodes, done.nodes)
      /\ IsTree(done.nodes) /\ LinksOK(done.nodes) /\ DOMAIN done.nodes = DOMAIN pa.nodes
  BY <1>4, SameWalk, SameLinksOK DEF Reweighted
<1>8. CASE ~done.ok
  BY <1>1, <1>5, <1>7, <1>8 DEF r
<1>9. CASE done.ok
  <2> DEFINE u == UpdateBest(boosted, slot)
  <2>1. u \in ProtoArrays /\ Relinked(done.nodes, u.nodes) /\ LinksOK(u.nodes)
    <3>1. IsTree(boosted.nodes) /\ LinksOK(boosted.nodes)
      BY <1>6, <1>7
    <3>2. u \in ProtoArrays /\ Relinked(boosted.nodes, u.nodes) /\ LinksOK(u.nodes)
      BY <1>6, <3>1, UpdateBestKeepsLinks
    <3> QED BY <1>6, <3>2
  <2> HIDE DEF u
  <2>2. SameTree(pa.nodes, u.nodes) /\ SameStatus(pa.nodes, u.nodes)
    BY <1>7, <2>1 DEF Relinked, SameTree, SameStatus
  <2>3. r.pa = u
    BY <1>1, <1>9 DEF u
  <2> QED BY <2>1, <2>2, <2>3 DEF r
<1> QED
  BY <1>8, <1>9

-----------------------------------------------------------------------------
(***************************************************************************)
(* Vectors and indices                                                     *)
(***************************************************************************)

LEMMA AsVecIs ==
    ASSUME NEW S, NEW n \in Nat, NEW f \in [1..n -> S]
    PROVE  AsVec(f) = f /\ f \in Seq(S) /\ Len(f) = n
<1>1. f \in Seq(S) /\ Len(f) = n
  OBVIOUS
<1>2. SubSeq(f, 1, n) \in Seq(S) /\ Len(SubSeq(f, 1, n)) = n
  BY <1>1
<1>3. \A i \in 1..n : SubSeq(f, 1, n)[i] = f[i]
  BY <1>1
<1>4. SubSeq(f, 1, n) = f
  BY <1>1, <1>2, <1>3
<1> QED
  BY <1>1, <1>4 DEF AsVec

\* IndexOf is the index of the root, if the vector has it.
LEMMA IndexFacts ==
    ASSUME NEW nodes \in Seq(Node), NEW root
    PROVE  \/ /\ IndexOf(nodes, root) = NoIndex
              /\ \A i \in DOMAIN nodes : nodes[i].root # root
           \/ /\ IndexOf(nodes, root) \in DOMAIN nodes
              /\ IndexOf(nodes, root) # NoIndex
              /\ nodes[IndexOf(nodes, root)].root = root
<1> DEFINE at == {i \in DOMAIN nodes : nodes[i].root = root}
           n == Len(nodes)
<1>1. n \in Nat /\ DOMAIN nodes = 1..n
  OBVIOUS
<1>2. IndexOf(nodes, root) = IF at = {} THEN NoIndex ELSE Max(at)
  BY DEF IndexOf
<1>3. CASE at = {}
  BY <1>2, <1>3
<1>4. CASE at # {}
  <2>1. at \in SUBSET (0..n)
    BY <1>1
  <2>2. Max(at) \in at
    <3> HIDE DEF at, n
    <3> QED BY <1>1, <1>4, <2>1, MaxOfSet
  <2>3. IndexOf(nodes, root) = Max(at)
    BY <1>2, <1>4
  <2> QED BY <1>1, <2>2, <2>3 DEF NoIndex
<1> QED
  BY <1>3, <1>4

LEMMA IndexOfNode ==
    ASSUME NEW nodes, IsTree(nodes), NEW i \in DOMAIN nodes
    PROVE  IndexOf(nodes, nodes[i].root) = i
<1>1. nodes \in Seq(Node)
  BY TreeFacts
<1> DEFINE j == IndexOf(nodes, nodes[i].root)
<1>2. j \in DOMAIN nodes /\ nodes[j].root = nodes[i].root
  BY <1>1, IndexFacts
<1> HIDE DEF j
<1>3. j = i
  BY <1>2 DEF IsTree
<1> QED
  BY <1>3 DEF j

LEMMA SetStatusFacts ==
    ASSUME NEW nodes \in Seq(Node), NEW S, NEW status \in Statuses
    PROVE  LET b == SetStatus(nodes, S, status)
           IN  /\ SameTree(nodes, b)
               /\ SameLinks(nodes, b)
               /\ \A i \in DOMAIN nodes :
                    b[i].execution_status = IF i \in S THEN status
                                            ELSE nodes[i].execution_status
<1> DEFINE n == Len(nodes)
           node(i) == [nodes[i] EXCEPT !.execution_status = status]
           f == [i \in DOMAIN nodes |-> IF i \in S THEN node(i) ELSE nodes[i]]
<1>1. n \in Nat /\ DOMAIN nodes = 1..n /\ \A i \in 1..n : nodes[i] \in Node
  OBVIOUS
<1>2. \A i \in 1..n : /\ node(i) \in Node
                      /\ node(i).root = nodes[i].root
                      /\ node(i).parent = nodes[i].parent
                      /\ node(i).best_child = nodes[i].best_child
                      /\ node(i).best_descendant = nodes[i].best_descendant
                      /\ node(i).execution_status = status
  BY <1>1 DEF Node
<1>3. SetStatus(nodes, S, status) = AsVec(f)
  BY DEF SetStatus
<1> HIDE DEF node, n
<1>4. f \in [1..n -> Node] /\ \A i \in 1..n : f[i] = IF i \in S THEN node(i) ELSE nodes[i]
  BY <1>1, <1>2
<1> HIDE DEF f
<1>5. AsVec(f) = f /\ f \in Seq(Node) /\ Len(f) = n
  BY <1>1, <1>4, AsVecIs
<1>6. SameTree(nodes, f) /\ SameLinks(nodes, f)
  BY <1>1, <1>2, <1>4, <1>5 DEF SameTree, SameLinks, n
<1>7. \A i \in DOMAIN nodes :
        f[i].execution_status = IF i \in S THEN status ELSE nodes[i].execution_status
  BY <1>1, <1>2, <1>4
<1> QED
  BY <1>3, <1>5, <1>6, <1>7

-----------------------------------------------------------------------------
(***************************************************************************)
(* Payload statuses.  V is the set of the blocks with a valid payload.     *)
(***************************************************************************)

\* No payload is valid behind one that is not.
IsClosed(V) == ZeroHash \notin V /\ \A r \in V : Block[r].parent \in V \cup {ZeroHash}

\* The statuses are true of V and agree along the chains, but for the valid children of x.
StatusesBut(nodes, V, x) ==
    \A i \in DOMAIN nodes :
        LET s == nodes[i].execution_status
            p == nodes[i].parent
        IN  /\ s = "Valid" => nodes[i].root \in V
            /\ s = "Invalid" => nodes[i].root \notin V
            /\ s = "Irrelevant" => p = NoIndex
            /\ p # NoIndex =>
                /\ nodes[p].execution_status = "Invalid" => s = "Invalid"
                /\ s = "Valid" /\ p # x => nodes[p].execution_status \in {"Valid", "Irrelevant"}

StatusesOK(nodes, V) == StatusesBut(nodes, V, NoIndex)

LEMMA SameStatusesOK ==
    ASSUME NEW a, IsTree(a), NEW b, SameTree(a, b), SameStatus(a, b), NEW V, NEW x,
           StatusesBut(a, V, x)
    PROVE  StatusesBut(b, V, x)
<1>1. DOMAIN b = DOMAIN a /\ \A i \in DOMAIN a : a[i].parent # NoIndex => a[i].parent \in DOMAIN a
  BY SameWalk, TreeFacts
<1>2. \A i \in DOMAIN a : /\ b[i].root = a[i].root /\ b[i].parent = a[i].parent
                          /\ b[i].execution_status = a[i].execution_status
  BY DEF SameTree, SameStatus
<1> QED
  BY <1>1, <1>2 DEF StatusesBut

\* What is before a block with a valid payload has a valid payload.
LEMMA ValidBefore ==
    ASSUME NEW nodes, IsTree(nodes), NEW V, IsClosed(V), NEW i \in DOMAIN nodes,
           nodes[i].root \in V, NEW j \in iter_nodes(nodes, i)
    PROVE  nodes[j].root \in V
<1> DEFINE S == {k \in DOMAIN nodes :
                    nodes[k].root \in V => \A x \in iter_nodes(nodes, k) : nodes[x].root \in V}
<1>1. ASSUME NEW k \in DOMAIN nodes, nodes[k].parent # NoIndex => nodes[k].parent \in S,
             nodes[k].root \in V
      PROVE  \A x \in iter_nodes(nodes, k) : nodes[x].root \in V
  <2> DEFINE p == nodes[k].parent
  <2>1. iter_nodes(nodes, k) = {k} \cup iter_nodes(nodes, p)
    BY Walk
  <2>2. CASE p = NoIndex
    BY <1>1, <2>1, <2>2, Walk
  <2>3. CASE p # NoIndex
    <3>1. p \in DOMAIN nodes /\ nodes[p].root \in Roots
      BY <2>3, TreeFacts
    <3>2. nodes[p].root = Block[nodes[k].root].parent
      BY <2>3 DEF IsTree
    <3>3. nodes[p].root \in V
      BY <1>1, <3>1, <3>2, BlockAssumption DEF IsClosed
    <3> QED BY <1>1, <2>1, <2>3, <3>3
  <2> QED BY <2>2, <2>3
<1> HIDE DEF S
<1>2. \A k \in DOMAIN nodes :
        (nodes[k].parent # NoIndex => nodes[k].parent \in S) => k \in S
  BY <1>1 DEF S
<1>3. i \in S
  BY <1>2, TreeInduct
<1> QED
  BY <1>3 DEF S

\* What is behind an invalid node is invalid.
LEMMA InvalidBehind ==
    ASSUME NEW nodes, IsTree(nodes), NEW V, StatusesOK(nodes, V), NEW i \in DOMAIN nodes,
           NEW j \in iter_nodes(nodes, i), nodes[j].execution_status = "Invalid"
    PROVE  nodes[i].execution_status = "Invalid"
<1> DEFINE S == {k \in DOMAIN nodes :
                    \A x \in iter_nodes(nodes, k) : nodes[x].execution_status = "Invalid" =>
                        nodes[k].execution_status = "Invalid"}
<1>1. ASSUME NEW k \in DOMAIN nodes, nodes[k].parent # NoIndex => nodes[k].parent \in S
      PROVE  k \in S
  <2> DEFINE p == nodes[k].parent
  <2>1. iter_nodes(nodes, k) = {k} \cup iter_nodes(nodes, p)
    BY Walk
  <2>2. CASE p = NoIndex
    BY <2>1, <2>2, Walk
  <2>3. CASE p # NoIndex
    <3>1. nodes[p].execution_status = "Invalid" => nodes[k].execution_status = "Invalid"
      BY <2>3 DEF StatusesOK, StatusesBut
    <3> QED BY <1>1, <2>1, <2>3, <3>1
  <2> QED BY <2>2, <2>3
<1> HIDE DEF S
<1>2. i \in S
  BY <1>1, TreeInduct
<1> QED
  BY <1>2 DEF S

\* OptimisticRun: optimistic nodes, up to one that is not or to the first of the chain.
LEMMA RunFacts ==
    ASSUME NEW nodes, IsTree(nodes), NEW i \in DOMAIN nodes
    PROVE  LET run == OptimisticRun(nodes, i)
           IN  /\ run \subseteq iter_nodes(nodes, i)
               /\ \A j \in run : nodes[j].execution_status = "Optimistic"
               /\ nodes[i].execution_status = "Optimistic" => i \in run
               /\ \A j \in run : LET p == nodes[j].parent IN
                    p # NoIndex /\ nodes[p].execution_status = "Optimistic" => p \in run
<1> DEFINE way == iter_nodes(nodes, i)
           other == {j \in way : nodes[j].execution_status # "Optimistic"}
           run == OptimisticRun(nodes, i)
<1>1. run = {j \in way : \A k \in other : k < j}
  BY DEF OptimisticRun
<1>2. way \subseteq 1..i /\ way \subseteq DOMAIN nodes /\ i \in way /\ i \in Nat
  BY WalkIsBack, TreeFacts
<1> HIDE DEF run, way
<1>3. \A j \in run : j \in way /\ nodes[j].execution_status = "Optimistic"
  BY <1>1, <1>2
<1>4. nodes[i].execution_status = "Optimistic" => i \in run
  BY <1>1, <1>2
<1>5. ASSUME NEW j \in run, nodes[j].parent # NoIndex,
             nodes[nodes[j].parent].execution_status = "Optimistic"
      PROVE  nodes[j].parent \in run
  <2> DEFINE p == nodes[j].parent
  <2>0. j \in way /\ j \in DOMAIN nodes /\ j \in Nat
    <3>1. j \in way
      BY <1>3
    <3>2. j \in 1..i /\ j \in DOMAIN nodes
      BY <1>2, <3>1, Zenon
    <3> QED BY <1>2, <3>1, <3>2
  <2>1. j \in way /\ j \in DOMAIN nodes /\ p \in DOMAIN nodes /\ p \in Nat /\ p < j /\ j \in Nat
    BY <1>5, <2>0, TreeFacts
  <2>2. iter_nodes(nodes, j) = {j} \cup iter_nodes(nodes, p) /\ p \in iter_nodes(nodes, p)
    BY <2>1, Walk, WalkIsBack
  <2>3. p \in way
    BY <2>1, <2>2, WalkGoesOn DEF way
  <2>4. ASSUME NEW k \in other PROVE k < p
    <3>1. k \in way /\ k \in Nat /\ k < j /\ k # p
      BY <1>1, <1>2, <1>5
    <3>2. k \in iter_nodes(nodes, j)
      BY <2>1, <3>1, WalkIsChain DEF way
    <3>3. k \in iter_nodes(nodes, p)
      BY <2>1, <2>2, <3>1, <3>2
    <3>4. k \in 1..p
      BY <2>1, <3>3, WalkIsBack
    <3> QED BY <2>1, <3>1, <3>4
  <2> QED BY <1>1, <2>3, <2>4
<1> QED
  BY <1>3, <1>4, <1>5 DEF run, way

\* propagate_execution_payload_validation: when the payload of node i is valid, the
\* statuses agree again with those of the valid children of i.
LEMMA ValidationKeeps ==
    ASSUME NEW pa \in ProtoArrays, IsTree(pa.nodes), NEW V, IsClosed(V),
           NEW i \in DOMAIN pa.nodes, pa.nodes[i].root \in V, StatusesBut(pa.nodes, V, i)
    PROVE  LET q == propagate_execution_payload_validation_by_index(pa, i)
           IN  /\ q \in ProtoArrays
               /\ SameTree(pa.nodes, q.nodes)
               /\ SameLinks(pa.nodes, q.nodes)
               /\ StatusesOK(q.nodes, V)
<1> DEFINE nodes == pa.nodes
           run == OptimisticRun(nodes, i)
           b == SetStatus(nodes, run, "Valid")
           q == propagate_execution_payload_validation_by_index(pa, i)
<1>1. /\ run \subseteq iter_nodes(nodes, i)
      /\ \A j \in run : nodes[j].execution_status = "Optimistic"
      /\ nodes[i].execution_status = "Optimistic" => i \in run
      /\ \A j \in run : LET p == nodes[j].parent IN
            p # NoIndex /\ nodes[p].execution_status = "Optimistic" => p \in run
  BY RunFacts
<1>2. q = [pa EXCEPT !.nodes = b]
  BY DEF propagate_execution_payload_validation_by_index
<1> HIDE DEF run
<1>3. nodes \in Seq(Node) /\ "Valid" \in Statuses
  BY TreeFacts DEF Statuses
<1>4. /\ SameTree(nodes, b) /\ SameLinks(nodes, b)
      /\ \A k \in DOMAIN nodes : b[k].execution_status =
            IF k \in run THEN "Valid" ELSE nodes[k].execution_status
  BY <1>3, SetStatusFacts
<1> HIDE DEF b, q
<1>5. q \in ProtoArrays /\ q.nodes = b
  BY <1>2, <1>4 DEF ProtoArrays, SameTree
<1>6. /\ DOMAIN b = DOMAIN nodes
      /\ \A k \in DOMAIN nodes : b[k].root = nodes[k].root /\ b[k].parent = nodes[k].parent
  BY <1>4, SameWalk DEF SameTree
<1>7. \A j \in run : j \in DOMAIN nodes /\ nodes[j].root \in V
  BY <1>1, ValidBefore, WalkIsBack
<1>8. ASSUME NEW k \in DOMAIN nodes
      PROVE  LET s == b[k].execution_status
                 p == b[k].parent
             IN  /\ s = "Valid" => b[k].root \in V
                 /\ s = "Invalid" => b[k].root \notin V
                 /\ s = "Irrelevant" => p = NoIndex
                 /\ p # NoIndex =>
                    /\ b[p].execution_status = "Invalid" => s = "Invalid"
                    /\ s = "Valid" /\ p # NoIndex =>
                            b[p].execution_status \in {"Valid", "Irrelevant"}
  <2> DEFINE s == nodes[k].execution_status
             p == nodes[k].parent
  <2>1. /\ s = "Valid" => nodes[k].root \in V
        /\ s = "Invalid" => nodes[k].root \notin V
        /\ s = "Irrelevant" => p = NoIndex
        /\ p # NoIndex =>
            /\ nodes[p].execution_status = "Invalid" => s = "Invalid"
            /\ s = "Valid" /\ p # i => nodes[p].execution_status \in {"Valid", "Irrelevant"}
    BY DEF StatusesBut
  <2>2. p # NoIndex => p \in DOMAIN nodes /\ nodes[p].execution_status \in Statuses
    BY <1>3, TreeFacts, NodeFacts
  <2>3. i \in run \/ nodes[i].execution_status \in {"Valid", "Irrelevant"}
    <3>1. nodes[i].execution_status \in Statuses
      BY <1>3, NodeFacts
    <3>2. nodes[i].execution_status # "Invalid"
      BY DEF StatusesBut
    <3> QED BY <1>1, <3>1, <3>2 DEF Statuses
  <2>4. k \in run /\ p # NoIndex =>
            p \in run \/ nodes[p].execution_status \in {"Valid", "Irrelevant"}
    BY <1>1, <2>1, <2>2 DEF Statuses
  <2>5. k \in run => s = "Optimistic" /\ nodes[k].root \in V
    BY <1>1, <1>7
  <2>6. p # NoIndex => b[p].execution_status =
            IF p \in run THEN "Valid" ELSE nodes[p].execution_status
    BY <1>4, <2>2
  <2>7. p \in run => nodes[p].execution_status = "Optimistic"
    BY <1>1
  <2>8. b[k].execution_status = (IF k \in run THEN "Valid" ELSE s)
            /\ b[k].root = nodes[k].root /\ b[k].parent = p
    BY <1>4, <1>6
  <2> HIDE DEF s, p
  <2>9. CASE k \in run
    BY <2>1, <2>4, <2>5, <2>6, <2>7, <2>8, <2>9
  <2>10. CASE k \notin run
    BY <2>1, <2>3, <2>6, <2>7, <2>8, <2>10
  <2> QED BY <2>9, <2>10
<1>9. StatusesOK(b, V)
  BY <1>6, <1>8, Zenon DEF StatusesOK, StatusesBut
<1> QED
  BY <1>4, <1>5, <1>9 DEF q

\* The nodes that may become invalid: from `first` - 1 on, with an invalid payload and no
\* valid or irrelevant status.
MayFall(nodes, V, first) ==
    {j \in DOMAIN nodes : /\ nodes[j].root \notin V
                          /\ nodes[j].execution_status \notin {"Valid", "Irrelevant"}
                          /\ j + 1 >= first}

LEMMA ChildMayFall ==
    ASSUME NEW nodes, IsTree(nodes), NEW V, IsClosed(V), StatusesOK(nodes, V), NEW first \in Nat,
           NEW i \in DOMAIN nodes, nodes[i].parent \in MayFall(nodes, V, first)
    PROVE  i \in MayFall(nodes, V, first) /\ i >= first
<1> DEFINE p == nodes[i].parent
<1>1. p \in DOMAIN nodes /\ nodes[p].root \notin V /\ p + 1 >= first
  BY DEF MayFall
<1>2. p \in Nat /\ p < i /\ i \in Nat /\ p # NoIndex /\ nodes[p].root \in Roots
  BY <1>1, TreeFacts DEF NoIndex
<1>3. nodes[p].root = Block[nodes[i].root].parent
  BY <1>2 DEF IsTree
<1>4. nodes[i].root \notin V
  BY <1>1, <1>2, <1>3, BlockAssumption DEF IsClosed
<1>5. nodes[i].execution_status \notin {"Valid", "Irrelevant"}
  BY <1>2, <1>4 DEF StatusesOK, StatusesBut
<1>6. i >= first /\ i + 1 >= first
  BY <1>1, <1>2
<1> QED
  BY <1>4, <1>5, <1>6 DEF MayFall

FallStep(nodes, first, acc, i) ==
    IF ~acc.ok \/ i < first \/ nodes[i].parent \notin acc.invalid THEN acc
    ELSE IF nodes[i].execution_status \in {"Valid", "Irrelevant"}
         THEN [acc EXCEPT !.ok = FALSE]
         ELSE [acc EXCEPT !.invalid = @ \cup {i}]

FallAccs(nodes, V, first, hit) ==
    {acc \in [invalid : SUBSET MayFall(nodes, V, first), ok : {TRUE}] : hit \subseteq acc.invalid}

\* A step adds the node exactly when its parent has fallen, and meets no error.
LEMMA FallStepFacts ==
    ASSUME NEW nodes, IsTree(nodes), NEW V, IsClosed(V), StatusesOK(nodes, V), NEW first \in Nat,
           NEW hit, NEW acc \in FallAccs(nodes, V, first, hit), NEW i \in DOMAIN nodes
    PROVE  /\ FallStep(nodes, first, acc, i) \in FallAccs(nodes, V, first, hit)
           /\ nodes[i].parent \in acc.invalid =>
                FallStep(nodes, first, acc, i).invalid = acc.invalid \cup {i}
           /\ nodes[i].parent \notin acc.invalid =>
                FallStep(nodes, first, acc, i).invalid = acc.invalid
<1>1. /\ acc \in [invalid : SUBSET MayFall(nodes, V, first), ok : {TRUE}]
      /\ acc.invalid \subseteq MayFall(nodes, V, first) /\ acc.ok = TRUE /\ hit \subseteq acc.invalid
  BY DEF FallAccs
<1>2. CASE nodes[i].parent \notin acc.invalid
  <2>1. FallStep(nodes, first, acc, i) = acc
    BY <1>2 DEF FallStep
  <2> QED BY <1>2, <2>1
<1>3. CASE nodes[i].parent \in acc.invalid
  <2>1. i \in MayFall(nodes, V, first) /\ i >= first
    BY <1>1, <1>3, ChildMayFall
  <2>2. nodes[i].execution_status \notin {"Valid", "Irrelevant"} /\ i \in Nat
    BY <2>1, TreeFacts, SMTT(30) DEF MayFall
  <2>3. ~(i < first)
    BY <2>1, <2>2, SMTT(30)
  <2>4. FallStep(nodes, first, acc, i) = [acc EXCEPT !.invalid = @ \cup {i}]
    BY <1>1, <1>3, <2>2, <2>3 DEF FallStep
  <2>5. acc.invalid \cup {i} \subseteq MayFall(nodes, V, first) /\ hit \subseteq acc.invalid \cup {i}
    BY <1>1, <2>1
  <2> QED BY <1>1, <1>3, <2>4, <2>5 DEF FallAccs
<1> QED
  BY <1>2, <1>3

\* InvalidateDescendants: everything behind a fallen node falls, and only what may.
LEMMA AllBehindFall ==
    ASSUME NEW nodes, IsTree(nodes), NEW V, IsClosed(V), StatusesOK(nodes, V), NEW first \in Nat,
           NEW hit \in SUBSET MayFall(nodes, V, first)
    PROVE  LET R == InvalidateDescendants(nodes, first, hit)
           IN  /\ R \subseteq MayFall(nodes, V, first)
               /\ hit \subseteq R
               /\ \A i \in DOMAIN nodes : nodes[i].parent \in R => i \in R
<1> DEFINE n == Len(nodes)
           T == FallAccs(nodes, V, first, hit)
           Step(acc, i) == FallStep(nodes, first, acc, i)
           base == [invalid |-> hit, ok |-> TRUE]
           step == [x \in (1..n) \X T |-> Step(x[2], x[1])]
           after == CHOOSE after : after = [k \in 0..n |->
                        IF k = 0 THEN base ELSE Step(after[k - 1], k)]
<1>1. n \in Nat /\ DOMAIN nodes = 1..n
  BY TreeFacts
<1>2. base \in T /\ base.invalid = hit
  BY DEF FallAccs
<1>3. ASSUME NEW acc \in T, NEW i \in 1..n
      PROVE  /\ Step(acc, i) \in T
             /\ Step(acc, i).invalid =
                    IF nodes[i].parent \in acc.invalid THEN acc.invalid \cup {i} ELSE acc.invalid
  <2>1. i \in DOMAIN nodes
    BY <1>1
  <2>2. FallStep(nodes, first, acc, i) \in FallAccs(nodes, V, first, hit)
    BY <2>1, FallStepFacts
  <2>3. CASE nodes[i].parent \in acc.invalid
    BY <2>1, <2>2, <2>3, FallStepFacts, SMTT(30)
  <2>4. CASE nodes[i].parent \notin acc.invalid
    BY <2>1, <2>2, <2>4, FallStepFacts, SMTT(30)
  <2> QED BY <2>3, <2>4
<1>4. InvalidateDescendants(nodes, first, hit) = after[n].invalid
  BY DEF InvalidateDescendants, FallStep
<1> HIDE DEF T, n, Step, base
<1>6. step \in [(1..n) \X T -> T] /\ \A k \in 1..n, q \in T : step[<<k, q>>] = Step(q, k)
  BY <1>3
<1>7. PICK g : IsLoop(g, n, T, base, step)
  <2> HIDE DEF step
  <2> QED BY <1>1, <1>2, <1>6, Loop
<1> HIDE DEF step
<1>8. g = [k \in 0..n |-> IF k = 0 THEN base ELSE Step(g[k - 1], k)]
  <2>1. g \in [0..n -> T] /\ g[0] = base
    BY <1>7 DEF IsLoop
  <2>2. \A k \in 1..n : g[k - 1] \in T
    BY <1>1, <2>1
  <2>3. \A k \in 1..n : g[k] = Step(g[k - 1], k)
    BY <1>6, <1>7, <2>2 DEF IsLoop
  <2> QED BY <1>1, <2>1, <2>3
<1>9. after = [k \in 0..n |-> IF k = 0 THEN base ELSE Step(after[k - 1], k)]
  BY <1>8
<1> HIDE DEF after
<1>10. after[0] = base /\ \A k \in 1..n : after[k] = Step(after[k - 1], k)
  BY <1>1, <1>9
<1>11. \A k \in 0..n : after[k] \in T
  <2>1. \A k \in 1..n : after[k - 1] \in T => after[k] \in T
    BY <1>3, <1>10
  <2> QED BY <1>1, <1>2, <1>10, <2>1, LoopInvariant
<1> DEFINE S == {k \in 0..n : \A i \in 1..k :
                    nodes[i].parent \in after[k].invalid => i \in after[k].invalid}
<1>12. 0 \in S
  BY <1>1
<1>13. ASSUME NEW k \in 0..(n - 1), k \in S PROVE k + 1 \in S
  <2> DEFINE m == k + 1
             A == after[k].invalid
             B == after[m].invalid
  <2>1. m \in 1..n /\ m \in 0..n /\ m - 1 = k /\ k \in 0..n
    BY <1>1
  <2>2. \A i \in 1..k : nodes[i].parent \in A => i \in A
    BY <1>13
  <2>3. B = IF nodes[m].parent \in A THEN A \cup {m} ELSE A
    <3>1. after[k] \in T
      BY <1>11, <2>1
    <3>2. after[m] = Step(after[m - 1], m)
      BY <1>10, <2>1
    <3>3. after[m] = Step(after[k], m)
      BY <2>1, <3>2
    <3> QED BY <1>3, <2>1, <3>1, <3>3
  <2>4. \A i \in 1..m : nodes[i].parent # m
    <3>1. \A i \in 1..n : nodes[i].parent \in Nat /\ nodes[i].parent < i
      BY <1>1, TreeFacts
    <3> QED BY <1>1, <2>1, <3>1
  <2> HIDE DEF A, B
  <2>5. \A i \in 1..m : nodes[i].parent \in B => i \in B
    <3>1. \A i \in 1..m : i \in 1..k \/ i = m
      BY <2>1
    <3> HIDE DEF m
    <3> QED BY <2>2, <2>3, <2>4, <3>1
  <2> QED BY <2>1, <2>5 DEF B
<1> HIDE DEF S
<1>14. n \in S
  <2>1. \A k \in 0..n : k \in S
    BY <1>1, <1>12, <1>13, Induct
  <2> QED BY <1>1, <2>1
<1>15. \A i \in 1..n : nodes[i].parent \in after[n].invalid => i \in after[n].invalid
  BY <1>14 DEF S
<1>16. after[n] \in T
  BY <1>1, <1>11
<1>17. after[n].invalid \subseteq MayFall(nodes, V, first) /\ hit \subseteq after[n].invalid
  BY <1>16 DEF T, FallAccs
<1> QED
  BY <1>1, <1>4, <1>15, <1>17

\* Statuses agree after a set of nodes that holds what is behind its nodes has fallen.
LEMMA FallKeepsStatuses ==
    ASSUME NEW nodes, IsTree(nodes), NEW V, StatusesOK(nodes, V), NEW first,
           NEW R \in SUBSET MayFall(nodes, V, first),
           \A i \in DOMAIN nodes : nodes[i].parent \in R => i \in R,
           NEW b, SameTree(nodes, b),
           \A i \in DOMAIN nodes : b[i].execution_status =
                IF i \in R THEN "Invalid" ELSE nodes[i].execution_status
    PROVE  StatusesOK(b, V)
<1>1. /\ DOMAIN b = DOMAIN nodes
      /\ \A k \in DOMAIN nodes : b[k].root = nodes[k].root /\ b[k].parent = nodes[k].parent
  BY SameWalk DEF SameTree
<1>2. \A i \in R : /\ i \in DOMAIN nodes /\ nodes[i].root \notin V
                   /\ nodes[i].execution_status # "Valid"
                   /\ nodes[i].execution_status # "Irrelevant"
  BY DEF MayFall
<1>3. ASSUME NEW k \in DOMAIN nodes
      PROVE  LET s == b[k].execution_status
                 p == b[k].parent
             IN  /\ s = "Valid" => b[k].root \in V
                 /\ s = "Invalid" => b[k].root \notin V
                 /\ s = "Irrelevant" => p = NoIndex
                 /\ p # NoIndex =>
                    /\ b[p].execution_status = "Invalid" => s = "Invalid"
                    /\ s = "Valid" /\ p # NoIndex =>
                            b[p].execution_status \in {"Valid", "Irrelevant"}
  <2> DEFINE s == nodes[k].execution_status
             p == nodes[k].parent
  <2>1. /\ s = "Valid" => nodes[k].root \in V
        /\ s = "Invalid" => nodes[k].root \notin V
        /\ s = "Irrelevant" => p = NoIndex
        /\ p # NoIndex =>
            /\ nodes[p].execution_status = "Invalid" => s = "Invalid"
            /\ s = "Valid" => nodes[p].execution_status \in {"Valid", "Irrelevant"}
    BY DEF StatusesOK, StatusesBut
  <2>2. p # NoIndex => p \in DOMAIN nodes
    BY TreeFacts
  <2>3. p # NoIndex => b[p].execution_status =
            IF p \in R THEN "Invalid" ELSE nodes[p].execution_status
    BY <2>2
  <2>4. b[k].execution_status = (IF k \in R THEN "Invalid" ELSE s)
            /\ b[k].root = nodes[k].root /\ b[k].parent = p
    BY <1>1
  <2>5. p \in R => k \in R
    OBVIOUS
  <2> HIDE DEF s, p
  <2>6. CASE k \in R
    BY <1>2, <2>4, <2>6
  <2>7. CASE k \notin R
    BY <1>2, <2>1, <2>3, <2>4, <2>5, <2>7
  <2> QED BY <2>6, <2>7
<1> QED
  BY <1>1, <1>3, Zenon DEF StatusesOK, StatusesBut

\* The payloads after the latest valid ancestor on the way back from `head` are invalid, or
\* that of the head if the ancestor is not on the way.
InvalidAfter(nodes, V, head, lva, isAncestor) ==
    /\ isAncestor => lva \in iter_nodes(nodes, head)
    /\ \A j \in iter_nodes(nodes, head) :
            (IF isAncestor THEN j > lva ELSE j = head) => nodes[j].root \notin V

\* Then InvalidateBack finds no error, and these nodes.
HitOK(nodes, head, lva, isAncestor, hit) ==
    /\ hit \subseteq {j \in iter_nodes(nodes, head) : nodes[j].execution_status = "Optimistic"}
    /\ isAncestor => \A j \in iter_nodes(nodes, head) :
            j \in hit <=> j > lva /\ nodes[j].execution_status = "Optimistic"
    /\ ~isAncestor => hit \subseteq {head}

LEMMA BackFacts ==
    ASSUME NEW nodes, IsTree(nodes), NEW V, StatusesOK(nodes, V),
           NEW head \in DOMAIN nodes, NEW lva, NEW isAncestor \in BOOLEAN,
           InvalidAfter(nodes, V, head, lva, isAncestor)
    PROVE  /\ InvalidateBack(nodes, head, lva, isAncestor).error = FALSE
           /\ HitOK(nodes, head, lva, isAncestor,
                    InvalidateBack(nodes, head, lva, isAncestor).hit)
<1> DEFINE way == iter_nodes(nodes, head)
           With(status) == {j \in way : nodes[j].execution_status = status}
           E == {NoIndex} \cup With("Irrelevant")
                    \cup {j \in way : j = lva \/ (j # head /\ ~isAncestor)}
           I == {NoIndex} \cup With("Valid")
           end == Max(E)
           illegal == Max(I)
           hit == {j \in With("Optimistic") : j > end /\ j > illegal}
           walk == InvalidateBack(nodes, head, lva, isAncestor)
<1>1. walk = [hit |-> hit, error |-> illegal > end]
  BY DEF InvalidateBack
<1>2. way \subseteq 1..head /\ way \subseteq DOMAIN nodes /\ head \in way /\ head \in Nat
  BY WalkIsBack, TreeFacts
<1> HIDE DEF walk, way
<1>3. E \in SUBSET (0..head) /\ NoIndex \in E /\ I \in SUBSET (0..head) /\ NoIndex \in I
  <2>1. way \subseteq 0..head /\ NoIndex \in 0..head
    BY <1>2 DEF NoIndex
  <2>2. E \subseteq way \cup {NoIndex} /\ I \subseteq way \cup {NoIndex}
    OBVIOUS
  <2>3. NoIndex \in E /\ NoIndex \in I
    OBVIOUS
  <2> HIDE DEF E, I
  <2> QED BY <2>1, <2>2, <2>3
<1>4. end \in E /\ \A x \in E : x <= end
  <2> HIDE DEF E
  <2> QED BY <1>2, <1>3, MaxOfSet
<1>5. illegal \in I /\ \A x \in I : x <= illegal
  <2> HIDE DEF I
  <2> QED BY <1>2, <1>3, MaxOfSet
<1> HIDE DEF end, illegal
<1>6. end \in Nat /\ illegal \in Nat /\ end <= head
  BY <1>2, <1>3, <1>4, <1>5
<1>7. \A j \in way : nodes[j].root \notin V => nodes[j].execution_status # "Valid"
  BY <1>2 DEF StatusesOK, StatusesBut
<1>8. CASE isAncestor
  <2>1. lva \in way /\ lva \in Nat /\ lva # NoIndex /\ lva \in E
    BY <1>2, <1>8 DEF way, NoIndex, InvalidAfter
  <2>2. lva <= end
    BY <1>4, <2>1
  <2>3. \A j \in way : j > lva => nodes[j].execution_status # "Valid"
    BY <1>7, <1>8 DEF way, InvalidAfter
  <2>4. illegal <= lva
    BY <1>2, <1>5, <1>6, <2>1, <2>3 DEF NoIndex
  <2>5. \A j \in way : j > lva => nodes[j].execution_status # "Irrelevant"
    <3> SUFFICES ASSUME NEW j \in way, j > lva, nodes[j].execution_status = "Irrelevant"
                 PROVE FALSE
      OBVIOUS
    <3>1. j \in DOMAIN nodes /\ j \in Nat
      BY <1>2
    <3>2. lva \in iter_nodes(nodes, j)
      BY <2>1, <3>1, WalkIsChain DEF way
    <3>3. nodes[j].parent = NoIndex
      BY <3>1 DEF StatusesOK, StatusesBut
    <3>4. iter_nodes(nodes, j) = {j}
      BY <3>1, <3>3, Walk
    <3> QED BY <2>1, <3>1, <3>2, <3>4
  <2>6. end <= lva
    <3>1. end \in E
      BY <1>4
    <3>2. CASE end = NoIndex
      BY <2>1, <3>2 DEF NoIndex
    <3>3. CASE end \in With("Irrelevant")
      BY <1>6, <2>1, <2>5, <3>3
    <3>4. CASE end = lva
      BY <2>1, <3>4
    <3> QED BY <1>8, <3>1, <3>2, <3>3, <3>4
  <2>7. end = lva
    BY <1>6, <2>1, <2>2, <2>6
  <2>8. (illegal > end) = FALSE
    BY <1>6, <2>1, <2>4, <2>7
  <2>9. \A j \in way : j \in hit <=> j > lva /\ nodes[j].execution_status = "Optimistic"
    BY <1>2, <1>6, <2>1, <2>4, <2>7
  <2>10. hit \subseteq {j \in way : nodes[j].execution_status = "Optimistic"}
    OBVIOUS
  <2> HIDE DEF hit
  <2>11. walk.hit = hit /\ walk.error = FALSE
    BY <1>1, <2>8
  <2> QED BY <1>8, <2>9, <2>10, <2>11 DEF way, walk, HitOK
<1>9. CASE ~isAncestor
  <2>1. nodes[head].execution_status # "Valid"
    BY <1>2, <1>7, <1>9 DEF way, InvalidAfter
  <2>2. \A j \in way : j # head => j \in E
    BY <1>9
  <2>3. illegal <= end
    <3>1. illegal \in E
      BY <1>5, <2>1, <2>2
    <3> QED BY <1>4, <3>1
  <2>4. (illegal > end) = FALSE
    BY <1>6, <2>3
  <2>5. hit \subseteq {head}
    BY <1>2, <1>4, <1>6, <2>2
  <2>6. hit \subseteq {j \in way : nodes[j].execution_status = "Optimistic"}
    OBVIOUS
  <2> HIDE DEF hit
  <2>7. walk.hit = hit /\ walk.error = FALSE
    BY <1>1, <2>4
  <2> QED BY <1>9, <2>5, <2>6, <2>7 DEF way, walk, HitOK
<1> QED
  BY <1>8, <1>9

\* The ancestor of i at a slot is the last node on the way back that is not later.
LEMMA AncestorFacts ==
    ASSUME NEW nodes, IsTree(nodes), NEW i \in DOMAIN nodes, NEW slot,
           AncestorAt(nodes, i, slot) # ZeroHash
    PROVE  \E j \in iter_nodes(nodes, i) :
                /\ AncestorAt(nodes, i, slot) = nodes[j].root
                /\ Block[nodes[j].root].slot <= slot
                /\ \A k \in iter_nodes(nodes, i) : Block[nodes[k].root].slot <= slot => k <= j
<1> DEFINE at == {j \in iter_nodes(nodes, i) : Block[nodes[j].root].slot <= slot}
<1>1. AncestorAt(nodes, i, slot) = IF at = {} THEN ZeroHash ELSE nodes[Max(at)].root
  BY DEF AncestorAt
<1>2. iter_nodes(nodes, i) \subseteq 1..i /\ i \in Nat
  BY WalkIsBack, TreeFacts
<1>3. at # {} /\ AncestorAt(nodes, i, slot) = nodes[Max(at)].root
  BY <1>1
<1>4. at \in SUBSET (0..i)
  BY <1>2
<1>5. Max(at) \in at /\ \A x \in at : x <= Max(at)
  <2> HIDE DEF at
  <2> QED BY <1>2, <1>3, <1>4, MaxOfSet
<1> QED
  BY <1>3, <1>5

\* The same vector with other links.
WithLinks(nodes, x, y) ==
    [i \in DOMAIN nodes |-> [nodes[i] EXCEPT !.best_child = x[i], !.best_descendant = y[i]]]

HasLinks(f, x, y) ==
    \A i \in DOMAIN f : f[i].best_child = x[i] /\ f[i].best_descendant = y[i]

LEMMA UnlinkFacts ==
    ASSUME NEW nodes \in Seq(Node), NEW x \in [DOMAIN nodes -> Nat], NEW y \in [DOMAIN nodes -> Nat],
           NEW f, f = WithLinks(nodes, x, y)
    PROVE  /\ f \in Seq(Node)
           /\ SameTree(nodes, f)
           /\ SameStatus(nodes, f)
           /\ HasLinks(f, x, y)
<1> DEFINE node(i) == [nodes[i] EXCEPT !.best_child = x[i], !.best_descendant = y[i]]
           n == Len(nodes)
<1>1. n \in Nat /\ DOMAIN nodes = 1..n /\ \A i \in 1..n : nodes[i] \in Node
  OBVIOUS
<1>2. \A i \in 1..n : /\ node(i) \in Node
                      /\ node(i).root = nodes[i].root
                      /\ node(i).parent = nodes[i].parent
                      /\ node(i).execution_status = nodes[i].execution_status
                      /\ node(i).best_child = x[i]
                      /\ node(i).best_descendant = y[i]
  <2> TAKE i \in 1..n
  <2>1. nodes[i] \in Node /\ x[i] \in Nat /\ y[i] \in Nat
    BY <1>1
  <2> QED BY <2>1 DEF Node
<1>3. f = [i \in 1..n |-> node(i)]
  BY <1>1 DEF WithLinks
<1> HIDE DEF node, n
<1>4. f \in [1..n -> Node] /\ \A i \in 1..n : f[i] = node(i)
  BY <1>2, <1>3
<1>5. f \in Seq(Node) /\ Len(f) = n
  BY <1>1, <1>4, AsVecIs
<1> QED
  BY <1>1, <1>2, <1>4, <1>5 DEF SameTree, SameStatus, HasLinks, n

\* What invalidation leaves of a link of node i: a node of `hit` loses both, the latest valid
\* ancestor each one that leads into `hit`.
Cut(hit, lva, isAncestor, i, link) ==
    IF i \in hit \/ (isAncestor /\ i = lva /\ link \in hit) THEN NoIndex ELSE link

LEMMA CutLinkOK ==
    ASSUME NEW nodes, IsTree(nodes), LinksOK(nodes), NEW V, StatusesOK(nodes, V),
           NEW head \in DOMAIN nodes, NEW lva, NEW isAncestor \in BOOLEAN, NEW hit,
           InvalidAfter(nodes, V, head, lva, isAncestor),
           HitOK(nodes, head, lva, isAncestor, hit),
           NEW i \in DOMAIN nodes
    PROVE  LinkOK(nodes, i, Cut(hit, lva, isAncestor, i, nodes[i].best_child),
                            Cut(hit, lva, isAncestor, i, nodes[i].best_descendant))
<1> DEFINE bc == nodes[i].best_child
           bd == nodes[i].best_descendant
           x == Cut(hit, lva, isAncestor, i, bc)
           y == Cut(hit, lva, isAncestor, i, bd)
<1>1. LinkOK(nodes, i, bc, bd)
  BY DEF LinksOK
<1> HIDE DEF x, y
<1>0. SUFFICES LinkOK(nodes, i, x, y)
  BY DEF x, y
<1>2. CASE i \in hit
  BY <1>2 DEF LinkOK, Cut, x, y
<1>3. CASE i \notin hit /\ ~(isAncestor /\ i = lva)
  BY <1>1, <1>3 DEF Cut, x, y
<1>4. CASE isAncestor /\ i = lva /\ i \notin hit
  <2> DEFINE way == iter_nodes(nodes, head)
  <2>1. lva \in way /\ lva \in Nat /\ way \subseteq DOMAIN nodes
    BY <1>4, TreeFacts, WalkIsBack DEF InvalidAfter
  <2>2. CASE bd \in hit /\ bc # NoIndex
    <3>1. /\ bc \in DOMAIN nodes /\ nodes[bc].parent = i /\ bc \in iter_nodes(nodes, bd)
          /\ bd \in way /\ bd \in DOMAIN nodes
      BY <1>1, <1>4, <2>1, <2>2 DEF LinkOK, HitOK
    <3>2. bc \in way
      BY <3>1, WalkGoesOn
    <3>3. bc > lva /\ nodes[bc].parent # NoIndex
      <4>1. nodes[bc].parent < bc /\ bc \in Nat /\ lva # NoIndex
        BY <2>1, <3>1, TreeFacts DEF NoIndex
      <4> QED BY <1>4, <2>1, <3>1, <4>1
    <3>4. nodes[bd].execution_status = "Optimistic" /\ nodes[bc].root \notin V
      BY <1>4, <2>2, <3>1, <3>2, <3>3 DEF InvalidAfter, HitOK
    <3>5. nodes[bc].execution_status \in Statuses
      BY <3>1, TreeFacts, NodeFacts
    <3>6. nodes[bc].execution_status # "Valid" /\ nodes[bc].execution_status # "Irrelevant"
      BY <3>1, <3>3, <3>4 DEF StatusesOK, StatusesBut
    <3>7. nodes[bc].execution_status # "Invalid"
      BY <3>1, <3>4, InvalidBehind
    <3>8. bc \in hit
      BY <1>4, <3>2, <3>3, <3>5, <3>6, <3>7 DEF Statuses, HitOK
    <3>9. x = NoIndex /\ y = NoIndex
      BY <1>4, <2>2, <3>8 DEF Cut, x, y
    <3> QED BY <3>9 DEF LinkOK
  <2>3. CASE ~(bd \in hit /\ bc # NoIndex)
    <3> HIDE DEF bc, bd
    <3>1. x = bc \/ x = NoIndex
      BY DEF Cut, x
    <3>2. y = bd \/ (y = NoIndex /\ bd \in hit)
      BY <1>4 DEF Cut, y
    <3>3. y = NoIndex /\ bd \in hit => x = NoIndex
      BY <2>3, <3>1
    <3> QED BY <1>1, <3>1, <3>2, <3>3 DEF LinkOK
  <2> QED BY <2>2, <2>3
<1> QED
  BY <1>2, <1>3, <1>4

\* The nodes that propagate_execution_payload_invalidation leaves.
Fallen(nodes, head, lva, isAncestor) ==
    LET first == (IF isAncestor THEN lva ELSE head) + 1
        walk == InvalidateBack(nodes, head, lva, isAncestor)
        unlinked(i, link) == \/ i \in walk.hit
                             \/ ~walk.error /\ isAncestor /\ i = lva /\ link \in walk.hit
        back == [i \in DOMAIN nodes |-> [nodes[i] EXCEPT
                    !.best_child = IF unlinked(i, @) THEN NoIndex ELSE @,
                    !.best_descendant = IF unlinked(i, @) THEN NoIndex ELSE @]]
        invalid == IF walk.error THEN walk.hit
                   ELSE InvalidateDescendants(nodes, first, walk.hit)
    IN  SetStatus(back, invalid, "Invalid")

LEMMA FallenFacts ==
    ASSUME NEW nodes, IsTree(nodes), LinksOK(nodes), NEW V, IsClosed(V), StatusesOK(nodes, V),
           NEW head \in DOMAIN nodes, NEW lva \in Nat, NEW isAncestor \in BOOLEAN,
           InvalidAfter(nodes, V, head, lva, isAncestor)
    PROVE  LET b == Fallen(nodes, head, lva, isAncestor)
           IN  SameTree(nodes, b) /\ LinksOK(b) /\ StatusesOK(b, V)
<1> DEFINE first == (IF isAncestor THEN lva ELSE head) + 1
           walk == InvalidateBack(nodes, head, lva, isAncestor)
           hit == walk.hit
           R == InvalidateDescendants(nodes, first, hit)
           x == [i \in DOMAIN nodes |-> Cut(hit, lva, isAncestor, i, nodes[i].best_child)]
           y == [i \in DOMAIN nodes |-> Cut(hit, lva, isAncestor, i, nodes[i].best_descendant)]
           back == WithLinks(nodes, x, y)
           b == SetStatus(back, R, "Invalid")
<1>1. walk.error = FALSE
  BY BackFacts
<1>2. HitOK(nodes, head, lva, isAncestor, hit)
  BY BackFacts
<1> HIDE DEF walk
<1>3. Fallen(nodes, head, lva, isAncestor) = b
  <2> DEFINE Gone(i, link) == \/ i \in walk.hit
                              \/ ~walk.error /\ isAncestor /\ i = lva /\ link \in walk.hit
             old == [i \in DOMAIN nodes |-> [nodes[i] EXCEPT
                        !.best_child = IF Gone(i, @) THEN NoIndex ELSE @,
                        !.best_descendant = IF Gone(i, @) THEN NoIndex ELSE @]]
             inv == IF walk.error THEN walk.hit ELSE InvalidateDescendants(nodes, first, walk.hit)
  <2>1. Fallen(nodes, head, lva, isAncestor) = SetStatus(old, inv, "Invalid")
    BY Zenon DEF Fallen, walk
  <2>2. inv = R
    BY <1>1
  <2>3. old = back
    <3>1. \A i, link : (IF Gone(i, link) THEN NoIndex ELSE link) = Cut(hit, lva, isAncestor, i, link)
      BY <1>1 DEF Cut
    <3> HIDE DEF Gone, hit
    <3> DEFINE Old(i) == [nodes[i] EXCEPT !.best_child = IF Gone(i, @) THEN NoIndex ELSE @,
                                          !.best_descendant = IF Gone(i, @) THEN NoIndex ELSE @]
               New(i) == [nodes[i] EXCEPT !.best_child = x[i], !.best_descendant = y[i]]
    <3>2. ASSUME NEW i \in DOMAIN nodes PROVE Old(i) = New(i)
      <4>1. /\ x[i] = IF Gone(i, nodes[i].best_child) THEN NoIndex ELSE nodes[i].best_child
            /\ y[i] = IF Gone(i, nodes[i].best_descendant) THEN NoIndex
                      ELSE nodes[i].best_descendant
        BY <3>1
      <4>2. nodes[i] \in Node
        BY TreeFacts
      <4> HIDE DEF x, y
      <4> QED BY <4>1, <4>2 DEF Node
    <3>3. old = [i \in DOMAIN nodes |-> Old(i)] /\ back = [i \in DOMAIN nodes |-> New(i)]
      BY DEF WithLinks
    <3> HIDE DEF Old, New, old, back
    <3> QED BY <3>2, <3>3
  <2> HIDE DEF inv, old, R, back
  <2> QED BY <2>1, <2>2, <2>3
<1>4. nodes \in Seq(Node) /\ Len(nodes) \in Nat /\ DOMAIN nodes = 1..Len(nodes)
  BY TreeFacts
<1>5. first \in Nat /\ hit \in SUBSET MayFall(nodes, V, first)
  <2>1. iter_nodes(nodes, head) \subseteq DOMAIN nodes /\ head \in Nat
    BY <1>4, WalkIsBack
  <2>2. first \in Nat
    BY <2>1
  <2>3. ASSUME NEW j \in hit
        PROVE  /\ j \in DOMAIN nodes /\ nodes[j].root \notin V
               /\ nodes[j].execution_status = "Optimistic" /\ j + 1 >= first
    <3>1. j \in iter_nodes(nodes, head) /\ nodes[j].execution_status = "Optimistic"
      BY <1>2 DEF HitOK
    <3>2. j \in DOMAIN nodes /\ j \in Nat
      BY <1>4, <2>1, <3>1
    <3>3. CASE isAncestor
      <4>1. j > lva
        BY <1>2, <3>1, <3>3 DEF HitOK
      <4> QED BY <3>1, <3>2, <3>3, <4>1 DEF InvalidAfter
    <3>4. CASE ~isAncestor
      <4>1. j = head
        BY <1>2, <3>4 DEF HitOK
      <4> QED BY <3>1, <3>2, <3>4, <4>1 DEF InvalidAfter
    <3> QED BY <3>3, <3>4
  <2> HIDE DEF first, hit
  <2> QED BY <2>2, <2>3 DEF MayFall
<1> HIDE DEF first, hit
<1>6. /\ R \subseteq MayFall(nodes, V, first)
      /\ \A i \in DOMAIN nodes : nodes[i].parent \in R => i \in R
  BY <1>5, AllBehindFall
<1> HIDE DEF R
<1>7. x \in [DOMAIN nodes -> Nat] /\ y \in [DOMAIN nodes -> Nat]
  <2>1. \A i \in DOMAIN nodes : nodes[i].best_child \in Nat /\ nodes[i].best_descendant \in Nat
    BY <1>4, NodeFacts
  <2> QED BY <2>1 DEF NoIndex, Cut
<1>8. \A i \in DOMAIN nodes : LinkOK(nodes, i, x[i], y[i])
  <2> TAKE i \in DOMAIN nodes
  <2>1. LinkOK(nodes, i, Cut(hit, lva, isAncestor, i, nodes[i].best_child),
                         Cut(hit, lva, isAncestor, i, nodes[i].best_descendant))
    BY <1>2, CutLinkOK
  <2> QED BY <2>1
<1> HIDE DEF x, y
<1>9. /\ back \in Seq(Node) /\ SameTree(nodes, back) /\ SameStatus(nodes, back)
      /\ HasLinks(back, x, y)
  BY <1>4, <1>7, UnlinkFacts
<1> HIDE DEF back
<1>10. DOMAIN back = DOMAIN nodes /\ IsTree(back)
  BY <1>9, SameWalk
<1>11. LinksOK(back)
  <2>1. ASSUME NEW i \in DOMAIN nodes
        PROVE  LinkOK(back, i, back[i].best_child, back[i].best_descendant)
    <3>1. LinkOK(back, i, x[i], y[i])
      BY <1>8, <1>9, SameLinkOK
    <3> QED BY <1>9, <1>10, <3>1 DEF HasLinks
  <2> QED BY <1>10, <2>1 DEF LinksOK
<1>12. /\ SameTree(back, b) /\ SameLinks(back, b)
       /\ \A i \in DOMAIN back : b[i].execution_status =
              IF i \in R THEN "Invalid" ELSE back[i].execution_status
  BY <1>9, SetStatusFacts, SMTT(30) DEF Statuses
<1> HIDE DEF b
<1>13. LinksOK(b)
  BY <1>10, <1>11, <1>12, SameLinksOK
<1>14. SameTree(nodes, b)
  BY <1>9, <1>10, <1>12 DEF SameTree
<1>15. \A i \in DOMAIN nodes : b[i].execution_status =
          IF i \in R THEN "Invalid" ELSE nodes[i].execution_status
  BY <1>9, <1>10, <1>12 DEF SameStatus
<1>16. StatusesOK(b, V)
  BY <1>6, <1>14, <1>15, FallKeepsStatuses
<1> QED
  BY <1>3, <1>13, <1>14, <1>16

\* The engine is right about the payloads an operation names: the block it starts from, and
\* those after the latest valid ancestor.
OperationOK(nodes, V, op) ==
    /\ op.always = TRUE => op.root \notin V
    /\ \A h \in DOMAIN nodes : nodes[h].root = op.root =>
        \A l, j \in iter_nodes(nodes, h) :
            nodes[l].root = op.lva /\ j > l => nodes[j].root \notin V

\* propagate_execution_payload_invalidation for such an operation: the tree stays, the links
\* lead to nodes of it, and the statuses agree again.
LEMMA InvalidationKeeps ==
    ASSUME NEW pa \in ProtoArrays, IsTree(pa.nodes), LinksOK(pa.nodes),
           NEW V, IsClosed(V), StatusesOK(pa.nodes, V), NEW op, OperationOK(pa.nodes, V, op)
    PROVE  LET q == propagate_execution_payload_invalidation(pa, op)
           IN  /\ q \in ProtoArrays
               /\ SameTree(pa.nodes, q.nodes)
               /\ LinksOK(q.nodes)
               /\ StatusesOK(q.nodes, V)
<1> DEFINE nodes == pa.nodes
           head == IndexOf(nodes, op.root)
           named == {i \in DOMAIN nodes : /\ nodes[i].root = op.lva
                                          /\ nodes[i].execution_status # "Irrelevant"}
           lva == Max(named \cup {NoIndex})
           isAncestor == /\ lva # NoIndex
                         /\ is_descendant(pa, op.lva, op.root)
                         /\ is_finalized_checkpoint_or_descendant(pa, op.lva)
           b == Fallen(nodes, head, lva, isAncestor)
           q == propagate_execution_payload_invalidation(pa, op)
<1>1. q = IF head = NoIndex \/ ~(op.always \/ isAncestor) THEN pa ELSE [pa EXCEPT !.nodes = b]
  BY Zenon DEF propagate_execution_payload_invalidation, Fallen
<1>2. CASE head = NoIndex \/ ~(op.always \/ isAncestor)
  <2>1. q = pa
    BY <1>1, <1>2
  <2>2. SameTree(nodes, nodes)
    BY DEF SameTree, ProtoArrays
  <2> HIDE DEF q
  <2> QED BY <2>1, <2>2 DEF q
<1>3. CASE head # NoIndex /\ (op.always \/ isAncestor)
  <2> HIDE DEF q, b
  <2>1. q = [pa EXCEPT !.nodes = b]
    BY <1>1, <1>3
  <2>2. nodes \in Seq(Node) /\ Len(nodes) \in Nat /\ DOMAIN nodes = 1..Len(nodes)
    BY TreeFacts
  <2>3. head \in DOMAIN nodes /\ nodes[head].root = op.root
    BY <1>3, <2>2, IndexFacts
  <2>4. lva \in Nat /\ (lva # NoIndex => lva \in DOMAIN nodes /\ nodes[lva].root = op.lva)
    <3>1. named \cup {NoIndex} \in SUBSET (0..Len(nodes)) /\ named \cup {NoIndex} # {}
      BY <2>2 DEF NoIndex
    <3>2. lva \in named \cup {NoIndex}
      <4> HIDE DEF named
      <4> QED BY <2>2, <3>1, MaxOfSet
    <3> HIDE DEF lva
    <3> QED BY <2>2, <3>2 DEF NoIndex
  <2> HIDE DEF lva
  <2>5. isAncestor => lva \in iter_nodes(nodes, head)
    <3> SUFFICES ASSUME isAncestor PROVE lva \in iter_nodes(nodes, head)
      OBVIOUS
    <3>1. lva \in DOMAIN nodes /\ nodes[lva].root = op.lva /\ nodes[lva].root \in Roots
      BY <2>4, TreeFacts
    <3>2. AncestorAt(nodes, head, Block[op.lva].slot) = op.lva /\ op.lva # ZeroHash
      BY <3>1, BlockAssumption DEF is_descendant
    <3>3. PICK j \in iter_nodes(nodes, head) : nodes[j].root = op.lva
      <4> DEFINE slot == Block[op.lva].slot
      <4> HIDE DEF slot
      <4>1. AncestorAt(nodes, head, slot) = op.lva
        BY <3>2 DEF slot
      <4> QED BY <2>3, <3>2, <4>1, AncestorFacts, SMTT(30)
    <3>4. j \in DOMAIN nodes
      BY <2>3, WalkIsBack
    <3>5. j = lva
      BY <3>1, <3>3, <3>4 DEF IsTree
    <3> QED BY <3>5
  <2>6. PICK yes \in BOOLEAN : yes = isAncestor
    OBVIOUS
  <2>7. IsTree(nodes) /\ LinksOK(nodes) /\ StatusesOK(nodes, V) /\ OperationOK(nodes, V, op)
    OBVIOUS
  <2>8. b = Fallen(nodes, head, lva, yes)
    BY <2>6 DEF b
  <2>9. (yes => lva \in iter_nodes(nodes, head) /\ nodes[lva].root = op.lva) /\ (op.always \/ yes)
    BY <1>3, <2>4, <2>5, <2>6
  <2> HIDE DEF isAncestor, head, nodes, named
  <2>10. InvalidAfter(nodes, V, head, lva, yes)
    <3>1. CASE yes
      BY <2>3, <2>7, <2>9, <3>1 DEF OperationOK, InvalidAfter
    <3>2. CASE ~yes
      BY <2>3, <2>7, <2>9, <3>2 DEF OperationOK, InvalidAfter
    <3> QED BY <3>1, <3>2
  <2>11. SameTree(nodes, b) /\ LinksOK(b) /\ StatusesOK(b, V)
    BY <2>3, <2>4, <2>7, <2>8, <2>10, FallenFacts
  <2>12. q \in ProtoArrays /\ q.nodes = b
    BY <2>1, <2>11 DEF ProtoArrays, SameTree
  <2> QED BY <2>11, <2>12 DEF q, nodes
<1> QED
  BY <1>2, <1>3

-----------------------------------------------------------------------------
(***************************************************************************)
(* Adding and removing nodes                                               *)
(***************************************************************************)

\* b is a with one more node, for root, behind node p.
Grown(a, b, root, p) ==
    /\ Len(b) = Len(a) + 1
    /\ \A i \in DOMAIN a : b[i].root = a[i].root /\ b[i].parent = a[i].parent
    /\ b[Len(b)].root = root
    /\ b[Len(b)].parent = p

\* A new node behind a node of the tree, or alone, with no links yet.
LEMMA PushFacts ==
    ASSUME NEW nodes, IsTree(nodes), LinksOK(nodes), NEW V, StatusesOK(nodes, V),
           NEW node \in Node, \A i \in DOMAIN nodes : nodes[i].root # node.root,
           node.parent # NoIndex =>
                /\ node.parent \in DOMAIN nodes
                /\ nodes[node.parent].root = Block[node.root].parent
                /\ nodes[node.parent].execution_status # "Invalid"
                /\ node.execution_status # "Irrelevant",
           node.best_child = NoIndex, node.best_descendant = NoIndex,
           node.execution_status = "Valid" => node.root \in V,
           node.execution_status # "Invalid"
    PROVE  /\ Append(nodes, node) \in Seq(Node)
           /\ Grown(nodes, Append(nodes, node), node.root, node.parent)
           /\ IsTree(Append(nodes, node))
           /\ LinksOK(Append(nodes, node))
           /\ StatusesBut(Append(nodes, node), V, node.parent)
           /\ node.execution_status # "Valid" => StatusesOK(Append(nodes, node), V)
<1> DEFINE c == Append(nodes, node)
           n == Len(nodes)
<1>1. nodes \in Seq(Node) /\ n \in Nat /\ DOMAIN nodes = 1..n
  BY TreeFacts
<1>2. /\ c \in Seq(Node) /\ Len(c) = n + 1 /\ DOMAIN c = 1..(n + 1)
      /\ (\A i \in 1..n : c[i] = nodes[i]) /\ c[n + 1] = node
  BY <1>1
<1> HIDE DEF c, n
<1>3. \A i \in DOMAIN c : i \in 1..n \/ i = n + 1
  BY <1>1, <1>2
<1>4. node.parent \in Nat /\ (node.parent # NoIndex => node.parent \in 1..n)
  BY <1>1 DEF Node
<1>5. \A i \in 1..n : /\ nodes[i].parent \in Nat /\ nodes[i].parent < i
                      /\ nodes[i].parent # NoIndex => nodes[i].parent \in 1..n
  BY <1>1, TreeFacts
<1>6. IsTree(c)
  <2>1. ASSUME NEW i \in DOMAIN c
        PROVE  /\ c[i].parent < i
               /\ c[i].parent # NoIndex => c[c[i].parent].root = Block[c[i].root].parent
    <3>1. CASE i \in 1..n
      BY <1>1, <1>2, <1>5, <3>1, SMTT(30) DEF IsTree
    <3>2. CASE i = n + 1
      <4>1. node.parent < n + 1
        BY <1>1, <1>4 DEF NoIndex
      <4> QED BY <1>1, <1>2, <1>4, <3>2, <4>1
    <3> QED BY <1>3, <3>1, <3>2
  <2>2. ASSUME NEW i \in DOMAIN c, NEW j \in DOMAIN c, c[i].root = c[j].root PROVE i = j
    <3>1. CASE i \in 1..n /\ j \in 1..n
      BY <1>1, <1>2, <2>2, <3>1, SMTT(30) DEF IsTree
    <3> QED BY <1>1, <1>2, <1>3, <2>2, <3>1
  <2> QED BY <1>2, <2>1, <2>2 DEF IsTree
<1>7. \A i \in 1..n : iter_nodes(c, i) = iter_nodes(nodes, i)
  <2> DEFINE S == {i \in DOMAIN nodes : iter_nodes(c, i) = iter_nodes(nodes, i)}
  <2>1. ASSUME NEW i \in DOMAIN nodes, nodes[i].parent # NoIndex => nodes[i].parent \in S
        PROVE  i \in S
    <3>1. i \in DOMAIN c /\ c[i].parent = nodes[i].parent
      BY <1>1, <1>2
    <3>2. iter_nodes(c, i) = {i} \cup iter_nodes(c, nodes[i].parent)
      BY <1>6, <3>1, Walk, SMTT(30)
    <3>3. iter_nodes(nodes, i) = {i} \cup iter_nodes(nodes, nodes[i].parent)
      BY Walk
    <3>4. iter_nodes(c, nodes[i].parent) = iter_nodes(nodes, nodes[i].parent)
      <4>1. CASE nodes[i].parent = NoIndex
        BY <1>6, <4>1, Walk
      <4>2. CASE nodes[i].parent # NoIndex
        BY <2>1, <4>2
      <4> QED BY <4>1, <4>2
    <3> QED BY <3>2, <3>3, <3>4
  <2> HIDE DEF S
  <2>2. \A i \in DOMAIN nodes : i \in S
    BY <2>1, TreeInduct
  <2> QED BY <1>1, <2>2 DEF S
<1>8. LinksOK(c)
  <2>1. ASSUME NEW i \in DOMAIN c PROVE LinkOK(c, i, c[i].best_child, c[i].best_descendant)
    <3>1. CASE i = n + 1
      BY <1>2, <3>1 DEF LinkOK
    <3>2. CASE i \in 1..n
      <4> DEFINE x == nodes[i].best_child
                 y == nodes[i].best_descendant
      <4>1. LinkOK(nodes, i, x, y) /\ c[i].best_child = x /\ c[i].best_descendant = y
        BY <1>1, <1>2, <3>2 DEF LinksOK
      <4> HIDE DEF x, y
      <4>2. LinkOK(c, i, x, y)
        BY <1>1, <1>2, <1>7, <4>1, SMTT(30) DEF LinkOK
      <4> QED BY <4>1, <4>2
    <3> QED BY <1>3, <3>1, <3>2
  <2> QED BY <2>1 DEF LinksOK
<1>9. ASSUME NEW z, z = node.parent \/ (z = NoIndex /\ node.execution_status # "Valid")
      PROVE  StatusesBut(c, V, z)
  <2>1. ASSUME NEW i \in DOMAIN c
        PROVE  LET s == c[i].execution_status
                   p == c[i].parent
               IN  /\ s = "Valid" => c[i].root \in V
                   /\ s = "Invalid" => c[i].root \notin V
                   /\ s = "Irrelevant" => p = NoIndex
                   /\ p # NoIndex =>
                        /\ c[p].execution_status = "Invalid" => s = "Invalid"
                        /\ s = "Valid" /\ p # z =>
                                c[p].execution_status \in {"Valid", "Irrelevant"}
    <3>1. CASE i = n + 1
      BY <1>1, <1>2, <1>4, <1>9, <3>1
    <3>2. CASE i \in 1..n
      <4>1. c[i] = nodes[i] /\ (nodes[i].parent # NoIndex => c[nodes[i].parent] = nodes[nodes[i].parent])
        BY <1>2, <1>5, <3>2
      <4> QED BY <1>1, <3>2, <4>1 DEF StatusesOK, StatusesBut
    <3> QED BY <1>3, <3>1, <3>2
  <2> QED BY <2>1, Zenon DEF StatusesBut
<1>10. Grown(nodes, c, node.root, node.parent)
  BY <1>1, <1>2 DEF Grown, n
<1>11. StatusesBut(c, V, node.parent)
  BY <1>9
<1>12. node.execution_status # "Valid" => StatusesOK(c, V)
  BY <1>9 DEF StatusesOK
<1> QED
  BY <1>2, <1>6, <1>8, <1>10, <1>11, <1>12 DEF c

\* on_block, for a block that is not in the tree and whose parent is not invalid.
LEMMA InsertionKeeps ==
    ASSUME NEW pa \in ProtoArrays, IsTree(pa.nodes), LinksOK(pa.nodes),
           NEW V, IsClosed(V), StatusesOK(pa.nodes, V),
           NEW root \in Roots, IndexOf(pa.nodes, root) = NoIndex, ~ParentIsInvalid(pa, root),
           NEW status \in {"Valid", "Optimistic", "Irrelevant"},
           status = "Valid" => root \in V,
           status = "Irrelevant" => IndexOf(pa.nodes, Block[root].parent) = NoIndex, NEW slot
    PROVE  LET q == on_block(pa, root, status, slot)
           IN  /\ q \in ProtoArrays
               /\ Grown(pa.nodes, q.nodes, root, IndexOf(pa.nodes, Block[root].parent))
               /\ IsTree(q.nodes)
               /\ LinksOK(q.nodes)
               /\ StatusesOK(q.nodes, V)
<1> DEFINE nodes == pa.nodes
           p == IndexOf(nodes, Block[root].parent)
           n == Len(nodes) + 1
           node == [root |-> root, parent |-> p, weight |-> 0, best_child |-> NoIndex,
                    best_descendant |-> NoIndex, execution_status |-> status]
           c == Append(nodes, node)
           pushed == [pa EXCEPT !.nodes = c]
           linked == maybe_update_best_child_and_descendant(pushed, p, n, slot)
           q == on_block(pa, root, status, slot)
<1>1. q = IF p = NoIndex THEN pushed
          ELSE IF status = "Valid"
               THEN propagate_execution_payload_validation_by_index(linked, p) ELSE linked
  BY DEF on_block
<1>2. nodes \in Seq(Node) /\ Len(nodes) \in Nat /\ DOMAIN nodes = 1..Len(nodes)
  BY TreeFacts
<1>3. p \in Nat /\ (p # NoIndex => /\ p \in DOMAIN nodes
                                   /\ nodes[p].root = Block[root].parent
                                   /\ nodes[p].execution_status # "Invalid")
  <2>1. \/ p = NoIndex
        \/ p \in DOMAIN nodes /\ p # NoIndex /\ nodes[p].root = Block[root].parent
    BY <1>2, IndexFacts
  <2>2. p # NoIndex => nodes[p].execution_status # "Invalid"
    BY DEF ParentIsInvalid
  <2> HIDE DEF p
  <2> QED BY <1>2, <2>1, <2>2, SMTT(30) DEF NoIndex
<1>4. \A i \in DOMAIN nodes : nodes[i].root # root
  BY <1>2, IndexFacts
<1>p. status = "Irrelevant" => p = NoIndex
  OBVIOUS
<1> HIDE DEF p
<1>5. /\ node \in Node /\ node.root = root /\ node.parent = p
      /\ node.best_child = NoIndex /\ node.best_descendant = NoIndex
      /\ node.execution_status = status
  BY <1>3 DEF Node, Statuses, NoIndex
<1> HIDE DEF node, q
<1>6. /\ c \in Seq(Node)
      /\ Grown(nodes, c, root, p)
      /\ IsTree(c)
      /\ LinksOK(c)
      /\ StatusesBut(c, V, p)
      /\ status # "Valid" => StatusesOK(c, V)
  <2>1. /\ \A i \in DOMAIN nodes : nodes[i].root # node.root
        /\ node.parent # NoIndex =>
                /\ node.parent \in DOMAIN nodes
                /\ nodes[node.parent].root = Block[node.root].parent
                /\ nodes[node.parent].execution_status # "Invalid"
                /\ node.execution_status # "Irrelevant"
        /\ node.execution_status = "Valid" => node.root \in V
        /\ node.execution_status # "Invalid"
    BY <1>3, <1>4, <1>5, <1>p
  <2>2. /\ c \in Seq(Node)
        /\ Grown(nodes, c, node.root, node.parent)
        /\ IsTree(c)
        /\ LinksOK(c)
        /\ StatusesBut(c, V, node.parent)
        /\ node.execution_status # "Valid" => StatusesOK(c, V)
    BY <1>5, <2>1, PushFacts
  <2> QED BY <1>5, <2>2
<1> HIDE DEF c
<1>7. pushed \in ProtoArrays /\ pushed.nodes = c
  BY <1>6 DEF ProtoArrays
<1> HIDE DEF pushed
<1>8. CASE p = NoIndex
  <2>1. q = pushed
    BY <1>1, <1>8
  <2>2. StatusesOK(c, V)
    BY <1>6, <1>8 DEF StatusesOK
  <2> QED BY <1>6, <1>7, <2>1, <2>2 DEF q, p
<1>9. CASE p # NoIndex
  <2>1. n \in DOMAIN c /\ c[n].parent = p /\ c[n].root = root
    BY <1>2, <1>6, SMTT(30) DEF Grown
  <2>2. linked \in ProtoArrays /\ Relinked(c, linked.nodes) /\ LinksOK(linked.nodes)
    <3>1. /\ IsTree(pushed.nodes) /\ LinksOK(pushed.nodes) /\ n \in DOMAIN pushed.nodes
          /\ p = pushed.nodes[n].parent
      BY <1>6, <1>7, <2>1
    <3> HIDE DEF n
    <3>2. /\ linked \in ProtoArrays /\ Relinked(pushed.nodes, linked.nodes)
          /\ LinksOK(linked.nodes)
      BY <1>7, <1>9, <3>1, UpdateKeepsLinks
    <3> QED BY <1>7, <3>2
  <2> HIDE DEF linked
  <2>3. /\ SameTree(c, linked.nodes) /\ SameStatus(c, linked.nodes) /\ IsTree(linked.nodes)
        /\ DOMAIN linked.nodes = DOMAIN c
    BY <1>6, <2>2, SameWalk DEF Relinked, SameStatus
  <2>4. StatusesBut(linked.nodes, V, p) /\ (status # "Valid" => StatusesOK(linked.nodes, V))
    BY <1>6, <2>3, SameStatusesOK DEF StatusesOK
  <2>5. ASSUME NEW b, SameTree(c, b) PROVE Grown(nodes, b, root, p) /\ IsTree(b)
    <3>1. IsTree(b)
      BY <1>6, <2>5, SameWalk
    <3>2. Len(b) = n /\ \A i \in DOMAIN nodes : i \in DOMAIN c
      BY <1>2, <1>6, <2>1, <2>5, SMTT(30) DEF SameTree, Grown
    <3> QED BY <1>2, <1>6, <2>1, <2>5, <3>1, <3>2 DEF Grown, SameTree
  <2>6. CASE status # "Valid"
    <3>1. q = linked
      BY <1>1, <1>9, <2>6
    <3> QED BY <2>2, <2>3, <2>4, <2>5, <2>6, <3>1 DEF q, p
  <2>7. CASE status = "Valid"
    <3>1. q = propagate_execution_payload_validation_by_index(linked, p)
      BY <1>1, <1>9, <2>7
    <3>2. p \in DOMAIN linked.nodes /\ linked.nodes[p].root \in V
      <4>1. p \in DOMAIN c /\ c[p].root = nodes[p].root /\ p \in DOMAIN nodes
        <5>1. p \in DOMAIN nodes
          BY <1>3, <1>9
        <5>2. c[p].root = nodes[p].root
          BY <1>6, <5>1 DEF Grown
        <5>3. Len(c) = Len(nodes) + 1 /\ DOMAIN c = 1..Len(c)
          BY <1>6, SMTT(30) DEF Grown
        <5> QED BY <1>2, <5>1, <5>2, <5>3, SMTT(30)
      <4>2. linked.nodes[p].root = nodes[p].root
        BY <2>3, <4>1 DEF SameTree
      <4>3. nodes[p].root \in Roots /\ nodes[p].root = Block[root].parent
        BY <1>3, <1>9, <4>1, TreeFacts
      <4>4. nodes[p].root \in V
        BY <2>7, <4>3, BlockAssumption DEF IsClosed
      <4> QED BY <2>3, <4>1, <4>2, <4>4
    <3>3. /\ q \in ProtoArrays
          /\ SameTree(linked.nodes, q.nodes)
          /\ SameLinks(linked.nodes, q.nodes)
          /\ StatusesOK(q.nodes, V)
      BY <2>2, <2>3, <2>4, <3>1, <3>2, ValidationKeeps
    <3>4. SameTree(c, q.nodes)
      BY <2>3, <3>3 DEF SameTree
    <3>5. LinksOK(q.nodes)
      BY <2>2, <2>3, <3>3, SameLinksOK
    <3> QED BY <2>5, <3>3, <3>4, <3>5 DEF q, p
  <2> QED BY <2>6, <2>7
<1> QED
  BY <1>8, <1>9

\* b is a without its first d nodes, with the indices moved back by d.
Dropped(a, b, d) ==
    /\ Len(b) = Len(a) - d
    /\ \A i \in DOMAIN b :
        /\ b[i].root = a[i + d].root
        /\ b[i].parent = Rebased(a[i + d].parent, d + 1)
        /\ b[i].best_child = Rebased(a[i + d].best_child, d + 1)
        /\ b[i].best_descendant = Rebased(a[i + d].best_descendant, d + 1)
        /\ b[i].execution_status = a[i + d].execution_status

LEMMA RebasedFacts ==
    ASSUME NEW d \in Nat, NEW x \in Nat
    PROVE  /\ Rebased(x, d + 1) \in Nat
           /\ Rebased(x, d + 1) = NoIndex <=> x <= d
           /\ x > d => Rebased(x, d + 1) = x - d /\ Rebased(x, d + 1) + d = x
BY DEF Rebased, NoIndex

\* A walk in b is a walk in a that stops where the dropped nodes begin.
LEMMA DroppedWalk ==
    ASSUME NEW a, IsTree(a), NEW d \in Nat, NEW b \in Seq(Node), Dropped(a, b, d)
    PROVE  /\ IsTree(b)
           /\ \A i \in DOMAIN b : i + d \in DOMAIN a
           /\ \A i \in DOMAIN b, x \in Nat \ {0} :
                x \in iter_nodes(b, i) <=> x + d \in iter_nodes(a, i + d)
<1>1. /\ DOMAIN a = 1..Len(a) /\ Len(a) \in Nat /\ DOMAIN b = 1..Len(b) /\ Len(b) \in Nat
      /\ Len(b) = Len(a) - d
  BY TreeFacts, NodeFacts DEF Dropped
<1>2. \A i \in DOMAIN b : i \in Nat /\ i # 0 /\ i + d \in DOMAIN a
  BY <1>1
<1>3. ASSUME NEW i \in DOMAIN b
      PROVE  /\ b[i].root = a[i + d].root
             /\ a[i + d].parent \in Nat /\ a[i + d].parent < i + d
             /\ b[i].parent = NoIndex <=> a[i + d].parent <= d
             /\ b[i].parent # NoIndex => b[i].parent \in DOMAIN b
             /\ b[i].parent # NoIndex => b[i].parent + d = a[i + d].parent
             /\ b[i].parent < i
  <2> DEFINE p == a[i + d].parent
  <2>1. b[i].root = a[i + d].root /\ b[i].parent = Rebased(p, d + 1)
    BY DEF Dropped
  <2>2. p \in Nat /\ p < i + d
    BY <1>2, TreeFacts
  <2> HIDE DEF p
  <2>3. /\ b[i].parent \in Nat
        /\ b[i].parent = NoIndex <=> p <= d
        /\ p > d => b[i].parent = p - d /\ b[i].parent + d = p
    BY <2>1, <2>2, RebasedFacts
  <2>4. i \in Nat /\ i <= Len(b) /\ i # 0
    BY <1>1
  <2>5. b[i].parent # NoIndex => b[i].parent \in DOMAIN b
    BY <1>1, <2>2, <2>3, <2>4 DEF NoIndex
  <2>6. b[i].parent < i
    BY <2>2, <2>3, <2>4 DEF NoIndex
  <2> QED BY <2>1, <2>2, <2>3, <2>5, <2>6, SMTT(30) DEF p
<1>4. IsTree(b)
  <2>1. ASSUME NEW i \in DOMAIN b, b[i].parent # NoIndex
        PROVE  b[b[i].parent].root = Block[b[i].root].parent
    <3>1. b[b[i].parent].root = a[a[i + d].parent].root
      BY <1>3, <2>1
    <3>2. i + d \in DOMAIN a /\ a[i + d].parent # NoIndex
      BY <1>2, <1>3, <2>1, SMTT(30) DEF NoIndex
    <3>3. a[a[i + d].parent].root = Block[a[i + d].root].parent
      BY <3>2 DEF IsTree
    <3> QED BY <1>3, <3>1, <3>3
  <2>2. ASSUME NEW i \in DOMAIN b, NEW j \in DOMAIN b, b[i].root = b[j].root
        PROVE  i = j
    <3>1. i + d = j + d
      BY <1>2, <1>3, <2>2 DEF IsTree
    <3> QED BY <1>1, <3>1
  <2> QED BY <1>3, <2>1, <2>2 DEF IsTree
<1> DEFINE S == {i \in DOMAIN b : \A x \in Nat \ {0} :
                    x \in iter_nodes(b, i) <=> x + d \in iter_nodes(a, i + d)}
<1>5. ASSUME NEW i \in DOMAIN b, b[i].parent # NoIndex => b[i].parent \in S
      PROVE  i \in S
  <2> DEFINE p == b[i].parent
             q == a[i + d].parent
  <2>1. /\ iter_nodes(b, i) = {i} \cup iter_nodes(b, p)
        /\ iter_nodes(a, i + d) = {i + d} \cup iter_nodes(a, q)
        /\ iter_nodes(b, NoIndex) = {}
    BY <1>2, <1>4, Walk
  <2>2. ASSUME NEW x \in Nat \ {0} PROVE x \in iter_nodes(b, p) <=> x + d \in iter_nodes(a, q)
    <3>1. CASE p # NoIndex
      <4>1. p + d = q /\ p \in S
        BY <1>3, <1>5, <3>1
      <4> HIDE DEF p, q
      <4> QED BY <4>1
    <3>2. CASE p = NoIndex
      <4>1. q <= d /\ q \in Nat /\ (q # NoIndex => q \in DOMAIN a)
        BY <1>2, <1>3, <3>2, TreeFacts
      <4> HIDE DEF p, q
      <4>2. iter_nodes(a, q) \subseteq 1..q
        <5>1. CASE q = NoIndex
          BY <5>1, Walk
        <5>2. CASE q # NoIndex
          BY <4>1, <5>2, WalkIsBack
        <5> QED BY <5>1, <5>2
      <4>3. x + d \notin 1..q
        BY <4>1
      <4> QED BY <2>1, <3>2, <4>2, <4>3
    <3> QED BY <3>1, <3>2
  <2> HIDE DEF p, q
  <2>3. ASSUME NEW x \in Nat \ {0} PROVE x \in iter_nodes(b, i) <=> x + d \in iter_nodes(a, i + d)
    <3>1. x = i <=> x + d = i + d
      BY <1>2
    <3> QED BY <2>1, <2>2, <3>1
  <2> QED BY <2>3
<1> HIDE DEF S
<1>6. \A i \in DOMAIN b : i \in S
  BY <1>4, <1>5, TreeInduct
<1> QED
  BY <1>2, <1>4, <1>6 DEF S

LEMMA DroppedKeeps ==
    ASSUME NEW a, IsTree(a), LinksOK(a), NEW V, StatusesOK(a, V),
           NEW d \in Nat, NEW b \in Seq(Node), Dropped(a, b, d)
    PROVE  LinksOK(b) /\ StatusesOK(b, V)
<1>1. /\ DOMAIN a = 1..Len(a) /\ Len(a) \in Nat /\ DOMAIN b = 1..Len(b) /\ Len(b) \in Nat
      /\ Len(b) = Len(a) - d
  BY TreeFacts, NodeFacts DEF Dropped
<1>2. /\ IsTree(b) 
      /\ \A i \in DOMAIN b : i \in Nat /\ i # 0 /\ i + d \in DOMAIN a
      /\ \A i \in DOMAIN b, x \in Nat \ {0} :
                x \in iter_nodes(b, i) <=> x + d \in iter_nodes(a, i + d)
  BY <1>1, DroppedWalk
<1>3. ASSUME NEW i \in DOMAIN b
      PROVE  LinkOK(b, i, b[i].best_child, b[i].best_descendant)
  <2> DEFINE x == a[i + d].best_child
             y == a[i + d].best_descendant
             u == b[i].best_child
             v == b[i].best_descendant
  <2>1. LinkOK(a, i + d, x, y) /\ x \in Nat /\ y \in Nat
    BY <1>2, TreeFacts, NodeFacts DEF LinksOK
  <2>2. u = Rebased(x, d + 1) /\ v = Rebased(y, d + 1)
    BY DEF Dropped
  <2>3. \A k \in DOMAIN b : b[k].parent = Rebased(a[k + d].parent, d + 1)
    BY DEF Dropped
  <2> HIDE DEF x, y, u, v
  <2>4. /\ u \in Nat /\ (u = NoIndex <=> x <= d) /\ (x > d => u = x - d /\ u + d = x)
        /\ v \in Nat /\ (v = NoIndex <=> y <= d) /\ (y > d => v = y - d /\ v + d = y)
    BY <2>1, <2>2, RebasedFacts
  <2>5. i \in Nat /\ i # 0 /\ i + d \in DOMAIN a
    BY <1>2
  <2>6. ASSUME v # NoIndex
        PROVE  v \in DOMAIN b /\ v # i /\ i \in iter_nodes(b, v) /\ v + d = y
    <3>1. y > d /\ v + d = y
      BY <2>1, <2>4, <2>6
    <3>2. y \in DOMAIN a /\ y # i + d /\ i + d \in iter_nodes(a, y)
      BY <2>1, <3>1, SMTT(30) DEF LinkOK, NoIndex
    <3>3. v \in DOMAIN b /\ v # i
      BY <1>1, <2>4, <2>6, <3>1, <3>2 DEF NoIndex
    <3> QED BY <1>2, <2>5, <3>1, <3>2, <3>3
  <2>7. ASSUME u # NoIndex
        PROVE  u \in DOMAIN b /\ b[u].parent = i /\ v # NoIndex /\ u \in iter_nodes(b, v)
    <3>1. x > d /\ u + d = x
      BY <2>1, <2>4, <2>7
    <3>2. /\ x \in DOMAIN a /\ a[x].parent = i + d /\ y # NoIndex /\ x \in iter_nodes(a, y)
          /\ y \in DOMAIN a
      BY <2>1, <3>1, SMTT(30) DEF LinkOK, NoIndex
    <3>3. x <= y
      BY <1>1, <3>2, WalkIsBack, SMTT(30)
    <3>4. v # NoIndex
      BY <1>1, <2>1, <2>4, <3>1, <3>3 
    <3>5. u \in DOMAIN b /\ u \in Nat \ {0}
      BY <1>1, <2>4, <2>7, <3>1, <3>2, SMTT(30) DEF NoIndex
    <3>6. b[u].parent = Rebased(i + d, d + 1)
      BY <2>3, <3>1, <3>2, <3>5
    <3>7. b[u].parent = i
      BY <2>5, <3>6, RebasedFacts, SMTT(30)
    <3> QED BY <1>2, <2>6, <3>1, <3>2, <3>4, <3>5, <3>7
  <2> QED BY <2>6, <2>7 DEF LinkOK, u, v
<1>4. StatusesOK(b, V)
  <2> SUFFICES ASSUME NEW i \in DOMAIN b
               PROVE  LET s == b[i].execution_status
                          p == b[i].parent
                      IN  /\ s = "Valid" => b[i].root \in V
                          /\ s = "Invalid" => b[i].root \notin V
                          /\ s = "Irrelevant" => p = NoIndex
                          /\ p # NoIndex =>
                              /\ b[p].execution_status = "Invalid" => s = "Invalid"
                              /\ s = "Valid" => b[p].execution_status \in {"Valid", "Irrelevant"}
    BY DEF StatusesOK, StatusesBut
  <2> DEFINE p == a[i + d].parent
             r == b[i].parent
  <2>1. /\ b[i].root = a[i + d].root /\ r = Rebased(p, d + 1)
        /\ b[i].execution_status = a[i + d].execution_status
        /\ \A k \in DOMAIN b : b[k].execution_status = a[k + d].execution_status
    BY DEF Dropped
  <2>2. p \in Nat /\ i + d \in DOMAIN a
    BY <1>2, TreeFacts
  <2>3. /\ a[i + d].execution_status = "Valid" => a[i + d].root \in V
        /\ a[i + d].execution_status = "Invalid" => a[i + d].root \notin V
        /\ a[i + d].execution_status = "Irrelevant" => p = NoIndex
        /\ p # NoIndex =>
            /\ a[p].execution_status = "Invalid" => a[i + d].execution_status = "Invalid"
            /\ a[i + d].execution_status = "Valid" => a[p].execution_status \in {"Valid", "Irrelevant"}
    BY <2>2 DEF StatusesOK, StatusesBut
  <2>4. r # NoIndex => r \in DOMAIN b
    BY <1>2, TreeFacts
  <2> HIDE DEF p, r
  <2>5. (r = NoIndex <=> p <= d) /\ (p > d => r + d = p)
    BY <2>1, <2>2, RebasedFacts
  <2>6. r # NoIndex => p # NoIndex /\ b[r].execution_status = a[p].execution_status
    BY <2>1, <2>2, <2>4, <2>5 DEF NoIndex
  <2>7. p = NoIndex => r = NoIndex
    BY <2>5 DEF NoIndex
  <2> QED BY <2>1, <2>3, <2>6, <2>7 DEF r
<1> QED
  BY <1>2, <1>3, <1>4 DEF LinksOK

\* maybe_prune drops the nodes before the finalized one, or none.
LEMMA PruneFacts ==
    ASSUME NEW pa \in ProtoArrays, IsTree(pa.nodes), NEW root
    PROVE  LET q == maybe_prune(pa, root)
           IN  /\ q \in ProtoArrays
               /\ \E d \in Nat : /\ d = 0 \/ d + 1 = IndexOf(pa.nodes, root)
                                 /\ Dropped(pa.nodes, q.nodes, d)
<1> DEFINE nodes == pa.nodes
           f == IndexOf(nodes, root)
           d == f - 1
           n == Len(nodes) - (f - 1)
           node(i) == [nodes[i + (f - 1)] EXCEPT !.parent = Rebased(@, f),
                                                 !.best_child = Rebased(@, f),
                                                 !.best_descendant = Rebased(@, f)]
           c == [i \in 1..n |-> node(i)]
           q == maybe_prune(pa, root)
<1>1. q = IF f = NoIndex \/ f - 1 < PruneThreshold THEN pa ELSE [pa EXCEPT !.nodes = AsVec(c)]
  BY DEF maybe_prune
<1>2. nodes \in Seq(Node) /\ Len(nodes) \in Nat /\ DOMAIN nodes = 1..Len(nodes)
  BY TreeFacts
<1>3. f = NoIndex \/ f \in DOMAIN nodes
  BY <1>2, IndexFacts
<1> HIDE DEF q
<1>4. CASE f = NoIndex \/ f - 1 < PruneThreshold
  <2>1. q = pa
    BY <1>1, <1>4
  <2>2. \A x \in Nat : Rebased(x, 0 + 1) = x
    BY DEF Rebased, NoIndex
  <2>3. Dropped(nodes, nodes, 0)
    <3>1. Len(nodes) = Len(nodes) - 0 /\ \A i \in DOMAIN nodes : i + 0 = i
      BY <1>2
    <3>2. \A i \in DOMAIN nodes : /\ nodes[i].parent \in Nat /\ nodes[i].best_child \in Nat
                                  /\ nodes[i].best_descendant \in Nat
      BY <1>2, NodeFacts
    <3> HIDE DEF nodes
    <3> QED BY <2>2, <3>1, <3>2 DEF Dropped
  <2> QED BY <2>1, <2>3 DEF q
<1>5. CASE f # NoIndex /\ ~(f - 1 < PruneThreshold)
  <2>1. f \in DOMAIN nodes /\ d \in Nat /\ d + 1 = f /\ n \in Nat /\ n = Len(nodes) - d
    BY <1>2, <1>3, <1>5, SMTT(30)
  <2>2. ASSUME NEW i \in 1..n
        PROVE  /\ node(i) \in Node
               /\ node(i).root = nodes[i + d].root
               /\ node(i).parent = Rebased(nodes[i + d].parent, d + 1)
               /\ node(i).best_child = Rebased(nodes[i + d].best_child, d + 1)
               /\ node(i).best_descendant = Rebased(nodes[i + d].best_descendant, d + 1)
               /\ node(i).execution_status = nodes[i + d].execution_status
    <3>1. i + d \in DOMAIN nodes /\ i + (f - 1) = i + d
      BY <1>2, <2>1, SMTT(30)
    <3> DEFINE x == nodes[i + d]
    <3>2. x \in Node /\ x.parent \in Nat /\ x.best_child \in Nat /\ x.best_descendant \in Nat
      BY <1>2, <3>1, NodeFacts
    <3>3. node(i) = [x EXCEPT !.parent = Rebased(@, d + 1), !.best_child = Rebased(@, d + 1),
                              !.best_descendant = Rebased(@, d + 1)]
      BY <2>1, <3>1
    <3> HIDE DEF x, node, d
    <3>4. /\ Rebased(x.parent, d + 1) \in Nat /\ Rebased(x.best_child, d + 1) \in Nat
          /\ Rebased(x.best_descendant, d + 1) \in Nat
      BY <2>1, <3>2, RebasedFacts
    <3>5. /\ node(i) \in Node
          /\ node(i).root = x.root
          /\ node(i).parent = Rebased(x.parent, d + 1)
          /\ node(i).best_child = Rebased(x.best_child, d + 1)
          /\ node(i).best_descendant = Rebased(x.best_descendant, d + 1)
          /\ node(i).execution_status = x.execution_status
      BY <3>2, <3>3, <3>4 DEF Node
    <3> QED BY <3>5 DEF x
  <2> HIDE DEF node, n, d
  <2>3. c \in [1..n -> Node] /\ \A i \in 1..n : c[i] = node(i)
    BY <2>2
  <2> HIDE DEF c
  <2>4. AsVec(c) = c /\ c \in Seq(Node) /\ Len(c) = n /\ DOMAIN c = 1..n
    BY <2>1, <2>3, AsVecIs
  <2>5. Dropped(nodes, c, d)
    BY <2>1, <2>2, <2>3, <2>4 DEF Dropped
  <2>6. q = [pa EXCEPT !.nodes = c]
    BY <1>1, <1>5, <2>4
  <2>7. q \in ProtoArrays /\ q.nodes = c
    BY <2>4, <2>6 DEF ProtoArrays
  <2> QED BY <2>1, <2>5, <2>7 DEF q
<1> QED
  BY <1>4, <1>5

\* set_all_blocks_to_optimistic leaves the blocks and the links, no weight below zero, and
\* no status but the anchor's to agree on.
LEMMA ResetKeeps ==
    ASSUME NEW pa \in ProtoArrays, IsTree(pa.nodes), NEW V, StatusesOK(pa.nodes, V),
           NEW votes, NEW balances \in Seq(Nat)
    PROVE  LET q == set_all_blocks_to_optimistic(pa, votes, balances)
           IN  /\ q \in ProtoArrays
               /\ SameTree(pa.nodes, q.nodes)
               /\ SameLinks(pa.nodes, q.nodes)
               /\ StatusesOK(q.nodes, V)
<1> DEFINE nodes == pa.nodes
           n == Len(nodes)
           invalid == {i \in DOMAIN nodes : nodes[i].execution_status = "Invalid"}
           boosted(i) == pa.previous_boost.root = nodes[i].root
           score == calculate_committee_fraction(balances, ProposerScoreBoost)
           backing(i) == [v \in Validators |-> IF votes[v].current = nodes[i].root
                                               THEN BalanceOf(balances, v) ELSE 0]
           restored(i) == SumTo(backing(i), NumValidators) + (IF boosted(i) THEN score ELSE 0)
           below(i) == [j \in DOMAIN nodes |->
                        IF j \in invalid /\ i \in iter_nodes(nodes, j) THEN restored(j) ELSE 0]
           extra(i) == SumTo(below(i), n)
           node(i) == [nodes[i] EXCEPT
                        !.weight = @ + extra(i),
                        !.execution_status = IF @ = "Irrelevant" THEN @ ELSE "Optimistic"]
           c == [i \in DOMAIN nodes |-> node(i)]
           again == IF \E i \in invalid : boosted(i) THEN score ELSE pa.previous_boost.score
           q == set_all_blocks_to_optimistic(pa, votes, balances)
<1>1. q = [pa EXCEPT !.nodes = AsVec(c), !.previous_boost.score = again]
  BY DEF set_all_blocks_to_optimistic
<1>2. nodes \in Seq(Node) /\ n \in Nat /\ DOMAIN nodes = 1..n
  BY TreeFacts
<1>3. score \in Nat
  BY FractionIsNat, ParametersAssumption
<1>4. \A i : restored(i) \in Nat
  <2> TAKE i
  <2>1. NumValidators \in Nat /\ backing(i) \in [1..NumValidators -> Nat]
    BY BalanceIsNat, ParametersAssumption DEF Validators
  <2> HIDE DEF backing, score
  <2>2. SumTo(backing(i), NumValidators) \in Nat
    BY <2>1, SumIsNat
  <2> HIDE DEF boosted
  <2> QED BY <1>3, <2>2
<1> HIDE DEF restored, q
<1>5. \A i : extra(i) \in Nat
  <2> TAKE i
  <2>1. below(i) \in [1..n -> Nat]
    BY <1>2, <1>4
  <2> HIDE DEF below, n
  <2> QED BY <1>2, <2>1, SumIsNat
<1> HIDE DEF extra
<1>6. ASSUME NEW i \in DOMAIN nodes
      PROVE  /\ node(i) \in Node
             /\ node(i).root = nodes[i].root
             /\ node(i).parent = nodes[i].parent
             /\ node(i).best_child = nodes[i].best_child
             /\ node(i).best_descendant = nodes[i].best_descendant
             /\ node(i).execution_status = IF nodes[i].execution_status = "Irrelevant"
                                           THEN "Irrelevant" ELSE "Optimistic"
  <2> DEFINE x == nodes[i]
             e == extra(i)
  <2>1. x \in Node /\ x.weight \in Nat /\ e \in Nat
    BY <1>2, <1>5, NodeFacts
  <2>2. node(i) = [x EXCEPT !.weight = @ + e,
                            !.execution_status = IF @ = "Irrelevant" THEN @ ELSE "Optimistic"]
    OBVIOUS
  <2> HIDE DEF x, e, node
  <2>3. x.weight + e \in Nat
    BY <2>1
  <2>4. /\ node(i) \in Node
        /\ node(i).root = x.root
        /\ node(i).parent = x.parent
        /\ node(i).best_child = x.best_child
        /\ node(i).best_descendant = x.best_descendant
        /\ node(i).execution_status = IF x.execution_status = "Irrelevant"
                                      THEN "Irrelevant" ELSE "Optimistic"
    BY <2>1, <2>2, <2>3 DEF Node, Statuses
  <2> QED BY <2>4 DEF x
<1> HIDE DEF node
<1>7. c \in [1..n -> Node] /\ \A i \in 1..n : c[i] = node(i)
  BY <1>2, <1>6
<1>8. again \in Nat
  BY <1>3 DEF ProtoArrays
<1> HIDE DEF c, n, again
<1>9. AsVec(c) = c /\ c \in Seq(Node) /\ Len(c) = n /\ DOMAIN c = 1..n
  BY <1>2, <1>7, AsVecIs
<1>10. SameTree(nodes, c) /\ SameLinks(nodes, c)
  BY <1>2, <1>6, <1>7, <1>9 DEF SameTree, SameLinks, n
<1>11. q \in ProtoArrays /\ q.nodes = c
  BY <1>1, <1>8, <1>9 DEF ProtoArrays
<1>12. StatusesOK(c, V)
  <2>1. \A i \in DOMAIN nodes :
            /\ c[i].execution_status = IF nodes[i].execution_status = "Irrelevant"
                                       THEN "Irrelevant" ELSE "Optimistic"
            /\ c[i].parent = nodes[i].parent
    BY <1>2, <1>6, <1>7
  <2>2. \A i \in DOMAIN nodes : nodes[i].parent # NoIndex => nodes[i].parent \in DOMAIN nodes
    BY TreeFacts
  <2>3. \A i \in DOMAIN nodes : nodes[i].execution_status = "Irrelevant" => nodes[i].parent = NoIndex
    BY DEF StatusesOK, StatusesBut
  <2>4. \A i \in DOMAIN nodes :
            /\ c[i].execution_status \notin {"Valid", "Invalid"}
            /\ c[i].execution_status = "Irrelevant" => c[i].parent = NoIndex
            /\ c[i].parent # NoIndex => c[c[i].parent].execution_status # "Invalid"
    BY <2>1, <2>2, <2>3
  <2> QED BY <1>2, <1>9, <2>4 DEF StatusesOK, StatusesBut
<1> QED
  BY <1>10, <1>11, <1>12 DEF q

=============================================================================
