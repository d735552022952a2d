------------------------------ MODULE MCLibrary -------------------------------
(***************************************************************************)
(* Programs of one process, and modules of lib/ under any sequence of      *)
(* calls.  They have nothing to do with each other: a behaviour exercises  *)
(* one of them, the unit chosen at the start.  The binary tree has         *)
(* variables of its own; each other unit keeps its state in the first      *)
(* slots of x1 to x11 and leaves the rest alone.                           *)
(***************************************************************************)
EXTENDS BinaryTree, DataLemmas, FiniteSetTheorems, FunctionTheorems, TLC

CONSTANTS
  MaxMsgLen, StreamBytes,     \* read_line_buf.c: MAX_MSG_LEN, the bytes of the stream
  Stored, Junk, MaxElements,  \* dynamic_array.c: what is pushed, what malloc leaves
  Bits, GivenFiles            \* permissions and flags; what imp_chattr.c is given

ASSUME LibraryAssumption ==
  MaxMsgLen \in Nat \ {0} /\ StreamBytes \in Nat /\ MaxElements \in Nat

VARIABLES unit, x1, x2, x3, x4, x5, x6, x7, x8, x9, x10, x11

allVars == <<unit, vars, x1, x2, x3, x4, x5, x6, x7, x8, x9, x10, x11>>

-----------------------------------------------------------------------------
(***************************************************************************)
(* Proofs about lib/binary_tree.c, for any keys and any number of nodes:   *)
(* TreeInv is kept by every call, and with it the tree is well formed and  *)
(* each call does to the map what KeyValueMap says.                        *)
(***************************************************************************)

\* The slots of a node, and the keys in use.
LEMMA SlotFacts ==
  /\ Root \in Slots
  /\ \A n \in Nodes : LeftOf(n) \in Slots /\ RightOf(n) \in Slots
  /\ \A n, m \in Nodes : /\ LeftOf(n) # RightOf(m) /\ LeftOf(n) # Root /\ RightOf(n) # Root
                         /\ LeftOf(n) = LeftOf(m) => n = m
                         /\ RightOf(n) = RightOf(m) => n = m
  /\ \A s \in Slots : s # Root => \E n \in Nodes : s = LeftOf(n) \/ s = RightOf(n)
BY TreeAssumption DEF Slots, Root, LeftOf, RightOf

LEMMA TowardFacts ==
  ASSUME NEW n \in Nodes, NEW k
  PROVE  /\ Toward(n, k) \in {LeftOf(n), RightOf(n)}
         /\ k < key[n] => Toward(n, k) = LeftOf(n)
         /\ ~(k < key[n]) => Toward(n, k) = RightOf(n)
BY DEF Toward, LeftOf, RightOf

\* What hangs in a slot.
LEMMA ChildFacts ==
  ASSUME NEW ch, NEW ky, NEW T, IsTree(ch, ky, T), NEW s \in Slots, ch[s] # Null
  PROVE  /\ ch[s] \in Nodes /\ ch[s] \in Used(ky) /\ ch[s] \in T[s] /\ ky[ch[s]] \in Int
         /\ T[s] = {ch[s]} \cup T[LeftOf(ch[s])] \cup T[RightOf(ch[s])]
         /\ ch[s] \notin T[LeftOf(ch[s])] /\ ch[s] \notin T[RightOf(ch[s])]
         /\ LeftOf(ch[s]) \in Slots /\ RightOf(ch[s]) \in Slots
         /\ s # LeftOf(ch[s]) /\ s # RightOf(ch[s])
<1> DEFINE n == ch[s]
<1>1. n \in Nodes /\ T[s] = {n} \cup T[LeftOf(n)] \cup T[RightOf(n)]
  BY DEF IsTree, Covers
<1>2. T[s] \subseteq Used(ky)
  BY DEF IsTree
<1>3. n \in Used(ky) /\ ky[n] \in Int
  BY <1>1, <1>2, TreeAssumption DEF Used, IsTree
<1>4. n \notin T[LeftOf(n)] /\ n \notin T[RightOf(n)]
  <2>1. \A m \in T[LeftOf(n)] : ky[m] < ky[n]
    BY DEF IsTree, Ordered
  <2>2. \A m \in T[RightOf(n)] : ky[n] < ky[m]
    BY DEF IsTree, Ordered
  <2>3. ~(ky[n] < ky[n])
    BY <1>3
  <2> HIDE DEF n
  <2> QED BY <2>1, <2>2, <2>3
<1>5. n \in T[s]
  BY <1>1
<1> HIDE DEF n
<1>6. s # LeftOf(n) /\ s # RightOf(n)
  BY <1>4, <1>5
<1> QED BY <1>1, <1>3, <1>4, <1>5, <1>6, SlotFacts DEF n

\* The keys of the nodes below a slot are numbers.
LEMMA KeysAreNumbers ==
  ASSUME NEW ch, NEW ky, NEW T, IsTree(ch, ky, T)
  PROVE  /\ \A n \in Used(ky) : n \in Nodes /\ ky[n] \in Keys /\ ky[n] \in Int
         /\ \A s \in Slots : T[s] \subseteq Used(ky) /\ IsFiniteSet(T[s])
                             /\ Cardinality(T[s]) \in Nat
                             /\ Cardinality(T[s]) <= Cardinality(Nodes)
         /\ Cardinality(Nodes) \in Nat
<1>1. \A n \in Used(ky) : n \in Nodes /\ ky[n] \in Keys /\ ky[n] \in Int
  BY TreeAssumption DEF Used, IsTree
<1>2. ASSUME NEW s \in Slots
      PROVE  T[s] \subseteq Used(ky) /\ T[s] \subseteq Nodes
  BY DEF Used, IsTree
<1> QED BY <1>1, <1>2, TreeAssumption, FS_Subset, FS_CardinalityType

\* A node on the left or right has fewer below it.
LEMMA FewerBelow ==
  ASSUME NEW ch, NEW ky, NEW T, IsTree(ch, ky, T), NEW s \in Slots, ch[s] # Null,
         NEW t \in {LeftOf(ch[s]), RightOf(ch[s])}
  PROVE  /\ T[t] \subseteq T[s] /\ t \in Slots
         /\ Cardinality(T[t]) \in Nat /\ Cardinality(T[s]) \in Nat
         /\ Cardinality(T[t]) < Cardinality(T[s])
<1>1. T[t] \subseteq T[s] /\ ch[s] \in T[s] /\ ch[s] \notin T[t] /\ t \in Slots
  BY ChildFacts
<1>2. IsFiniteSet(T[s]) /\ Cardinality(T[t]) \in Nat /\ Cardinality(T[s]) \in Nat
  BY <1>1, KeysAreNumbers
<1>3. T[t] # T[s]
  BY <1>1
<1>4. Cardinality(T[t]) <= Cardinality(T[s]) /\ (Cardinality(T[t]) = Cardinality(T[s]) => T[t] = T[s])
  BY <1>1, <1>2, FS_Subset
<1> QED BY <1>1, <1>2, <1>3, <1>4

\* What is below a node is below whatever the node is below.
LEMMA BelowIsTransitive ==
  ASSUME NEW ch, NEW ky, NEW T, IsTree(ch, ky, T), NEW s \in Slots, NEW n \in T[s]
  PROVE  n \in Nodes /\ T[LeftOf(n)] \subseteq T[s] /\ T[RightOf(n)] \subseteq T[s]
<1> DEFINE Good(u) == \A m \in T[u] : T[LeftOf(m)] \subseteq T[u] /\ T[RightOf(m)] \subseteq T[u]
           Bad == {Cardinality(T[u]) : u \in {v \in Slots : ~Good(v)}}
<1>1. \A u \in Slots : Good(u)
  <2> SUFFICES ASSUME Bad # {} PROVE FALSE
    OBVIOUS
  <2>1. Bad \subseteq Nat
    BY KeysAreNumbers
  <2>2. PICK c \in Bad : \A d \in Bad : c <= d
    <3> HIDE DEF Bad
    <3> QED BY <2>1, LeastNatural
  <2>3. PICK u \in Slots : ~Good(u) /\ c = Cardinality(T[u])
    OBVIOUS
  <2>4. ch[u] # Null
    BY <2>3 DEF IsTree, Covers
  <2>5. ASSUME NEW t \in {LeftOf(ch[u]), RightOf(ch[u])}
        PROVE  T[t] \subseteq T[u] /\ Good(t)
    <3>1. /\ T[t] \subseteq T[u] /\ t \in Slots
          /\ Cardinality(T[t]) \in Nat /\ c \in Nat /\ Cardinality(T[t]) < c
      BY <2>3, <2>4, FewerBelow
    <3>2. Cardinality(T[t]) \notin Bad
      <4> HIDE DEF Bad
      <4> QED BY <2>2, <3>1
    <3> QED BY <3>1, <3>2
  <2>6. T[u] = {ch[u]} \cup T[LeftOf(ch[u])] \cup T[RightOf(ch[u])]
    BY <2>4, ChildFacts
  <2>7. Good(u)
    BY <2>5, <2>6
  <2> QED BY <2>3, <2>7
<1>2. n \in Nodes
  BY KeysAreNumbers
<1> QED BY <1>1, <1>2

\* A step down the tree on the way to k.
StepDown(k, s) == IF child[s] = Null \/ key[child[s]] = k THEN s ELSE Toward(child[s], k)

\* The way down the tree: it stops within as many steps as there are nodes.
IsSearch(k, f, n) ==
  /\ f \in [0..n -> Slots] /\ f[0] = Root /\ f[n] = SlotFor(k)
  /\ \A i \in 0..n - 1 : /\ child[f[i]] # Null /\ key[child[f[i]]] # k
                         /\ f[i + 1] = Toward(child[f[i]], k)
  /\ child[f[n]] = Null \/ key[child[f[n]]] = k

\* The N + 1 steps that SlotFor makes.
IsDescent(k, f, N) ==
  /\ f \in [0..N + 1 -> Slots] /\ f[0] = Root /\ f[N + 1] = SlotFor(k)
  /\ \A i \in 0..N : f[i + 1] = StepDown(k, f[i])

LEMMA StepDownType ==
  ASSUME NEW T, IsTree(child, key, T), NEW k, NEW s \in Slots
  PROVE  StepDown(k, s) \in Slots
<1>1. CASE child[s] = Null \/ key[child[s]] = k
  BY <1>1 DEF StepDown
<1>2. CASE ~(child[s] = Null \/ key[child[s]] = k)
  <2>1. StepDown(k, s) = Toward(child[s], k)
    BY <1>2 DEF StepDown
  <2> QED BY <1>2, <2>1, ChildFacts, TowardFacts
<1> QED BY <1>1, <1>2

\* What SlotFor computes.
LEMMA SlotForUnfolds ==
  ASSUME NEW T, IsTree(child, key, T), NEW k, NEW N, N = Cardinality(Nodes)
  PROVE  \E f : IsDescent(k, f, N)
<1> DEFINE step == [i \in 1..N + 1 |-> [s \in Slots |-> StepDown(k, s)]]
           P(g) == g = [d \in 0..N |->
                     LET s == IF d = 0 THEN Root ELSE g[d - 1] IN
                     IF child[s] = Null \/ key[child[s]] = k THEN s ELSE Toward(child[s], k)]
<1>0. N \in Nat /\ N + 1 \in Nat /\ Root \in Slots
  BY TreeAssumption, FS_CardinalityType, SlotFacts
<1>1. step \in [1..N + 1 -> [Slots -> Slots]]
  BY StepDownType
<1>2. PICK f \in [0..N + 1 -> Slots] : IsRecursion(f, N + 1, Root, step)
  <2> HIDE DEF step
  <2> QED BY <1>0, <1>1, RecursionUpTo
<1>3. f[0] = Root /\ \A i \in 0..N : f[i] \in Slots /\ f[i + 1] = StepDown(k, f[i])
  <2>1. \A i \in 1..N + 1 : f[i - 1] \in Slots /\ f[i] = StepDown(k, f[i - 1])
    <3>1. \A i \in 1..N + 1 : i - 1 \in 0..N + 1
      BY <1>0
    <3> QED BY <1>2, <3>1 DEF IsRecursion
  <2>2. \A i \in 0..N : i + 1 \in 1..N + 1 /\ (i + 1) - 1 = i
    BY <1>0
  <2> QED BY <1>2, <2>1, <2>2 DEF IsRecursion
<1> DEFINE h == [d \in 0..N |-> f[d + 1]]
<1>4. P(h)
  <2>1. ASSUME NEW d \in 0..N
        PROVE  f[d + 1] = LET s == IF d = 0 THEN Root ELSE h[d - 1] IN
                          IF child[s] = Null \/ key[child[s]] = k THEN s
                          ELSE Toward(child[s], k)
    <3>1. f[d] = IF d = 0 THEN Root ELSE h[d - 1]
      <4>1. d # 0 => d - 1 \in 0..N /\ (d - 1) + 1 = d
        BY <1>0
      <4> QED BY <1>3, <4>1
    <3> HIDE DEF h
    <3> QED BY <1>3, <3>1 DEF StepDown
  <2> QED BY <2>1
<1> DEFINE c == CHOOSE g : P(g)
<1>5. P(c)
  <2> HIDE DEF P, h
  <2> QED BY <1>4
<1>6. 0..N \subseteq {i \in 0..N : c[i] = h[i]}
  <2> DEFINE S == {i \in 0..N : c[i] = h[i]}
  <2> HIDE DEF c, h
  <2>1. \A d \in 0..N :
          /\ c[d] = LET s == IF d = 0 THEN Root ELSE c[d - 1] IN
                    IF child[s] = Null \/ key[child[s]] = k THEN s ELSE Toward(child[s], k)
          /\ h[d] = LET s == IF d = 0 THEN Root ELSE h[d - 1] IN
                    IF child[s] = Null \/ key[child[s]] = k THEN s ELSE Toward(child[s], k)
    BY <1>4, <1>5
  <2>2. 0 \in S
    BY <1>0, <2>1
  <2>3. \A i \in 0..N - 1 : i \in S => i + 1 \in S
    <3>1. \A i \in 0..N - 1 : i + 1 \in 0..N /\ i + 1 # 0 /\ (i + 1) - 1 = i
      BY <1>0
    <3> QED BY <2>1, <3>1
  <2> HIDE DEF S
  <2>4. 0..N \subseteq S
    BY <1>0, <2>2, <2>3, InductionUpTo
  <2> QED BY <2>4 DEF S
<1>7. SlotFor(k) = c[N]
  BY DEF SlotFor
<1>8. c[N] = f[N + 1]
  <2> HIDE DEF c
  <2>1. N \in 0..N
    BY <1>0
  <2>2. c[N] = h[N]
    BY <1>6, <2>1
  <2> QED BY <2>1, <2>2
<1>9. IsDescent(k, f, N)
  BY <1>3, <1>7, <1>8 DEF IsDescent
<1> QED BY <1>9

LEMMA SearchEnds ==
  ASSUME NEW T, IsTree(child, key, T), NEW k
  PROVE  \E n \in 0..Cardinality(Nodes) : \E f : IsSearch(k, f, n)
<1>0. PICK N \in Nat : N = Cardinality(Nodes)
  BY TreeAssumption, FS_CardinalityType
<1>1. PICK f : IsDescent(k, f, N)
  BY <1>0, SlotForUnfolds
<1> USE <1>1 DEF IsDescent
<1> DEFINE Stop(s) == child[s] = Null \/ key[child[s]] = k
           size == [i \in 0..N + 1 |-> Cardinality(T[f[i]])]
           Small == {i \in 0..N : Stop(f[i]) \/ size[i] <= N - i}
<1>2. \A i \in 0..N + 1 : f[i] \in Slots /\ size[i] \in Nat
  BY KeysAreNumbers
<1>3. \A i \in 0..N : Stop(f[i]) => f[i + 1] = f[i]
  BY <1>1 DEF StepDown
<1>4. \A i \in 0..N : ~Stop(f[i]) => /\ child[f[i]] # Null /\ key[child[f[i]]] # k
                                     /\ f[i + 1] = Toward(child[f[i]], k)
                                     /\ size[i + 1] < size[i]
  <2> SUFFICES ASSUME NEW i \in 0..N, ~Stop(f[i])
               PROVE  /\ child[f[i]] # Null /\ key[child[f[i]]] # k
                      /\ f[i + 1] = Toward(child[f[i]], k)
                      /\ size[i + 1] < size[i]
    OBVIOUS
  <2>1. i \in 0..N + 1 /\ i + 1 \in 0..N + 1
    BY <1>0
  <2>2. child[f[i]] # Null /\ key[child[f[i]]] # k /\ f[i + 1] = Toward(child[f[i]], k)
    BY <1>1 DEF StepDown
  <2>3. child[f[i]] \in Nodes
    BY <1>2, <2>1, <2>2, ChildFacts
  <2>4. f[i + 1] \in {LeftOf(child[f[i]]), RightOf(child[f[i]])}
    BY <2>2, <2>3, TowardFacts
  <2>5. Cardinality(T[f[i + 1]]) < Cardinality(T[f[i]])
    BY <1>2, <2>1, <2>2, <2>4, FewerBelow
  <2> QED BY <2>1, <2>2, <2>5
<1>5. 0..N \subseteq Small
  <2>1. 0 \in Small
    <3>1. f[0] \in Slots /\ size[0] <= N /\ 0 \in 0..N /\ N - 0 = N
      BY <1>0, <1>1, <1>2, KeysAreNumbers
    <3> HIDE DEF size
    <3> QED BY <3>1
  <2>2. \A i \in 0..N - 1 : i \in Small => i + 1 \in Small
    <3> SUFFICES ASSUME NEW i \in 0..N - 1, i \in Small PROVE i + 1 \in Small
      OBVIOUS
    <3>1. i \in 0..N /\ i + 1 \in 0..N /\ i \in 0..N + 1 /\ i + 1 \in 0..N + 1
      BY <1>0
    <3>2. CASE Stop(f[i])
      <4>1. f[i + 1] = f[i]
        BY <1>3, <3>1, <3>2
      <4>2. Stop(f[i + 1])
        BY <3>2, <4>1
      <4> QED BY <3>1, <4>2
    <3>3. CASE ~Stop(f[i])
      <4>1. size[i] <= N - i /\ size[i + 1] < size[i]
        BY <1>4, <3>1, <3>3
      <4>2. size[i] \in Nat /\ size[i + 1] \in Nat
        BY <1>2, <3>1
      <4> HIDE DEF size
      <4>3. size[i + 1] <= N - (i + 1)
        BY <4>1, <4>2
      <4> QED BY <3>1, <4>3
    <3> QED BY <3>2, <3>3
  <2> HIDE DEF Small
  <2> QED BY <1>0, <2>1, <2>2, InductionUpTo
<1>6. Stop(f[N])
  <2>1. N \in 0..N /\ N \in 0..N + 1
    BY <1>0
  <2>2. Stop(f[N]) \/ size[N] <= N - N
    BY <1>5, <2>1
  <2>3. CASE size[N] <= N - N
    <3>1. size[N] \in Nat /\ f[N] \in Slots
      BY <1>2, <2>1
    <3>2. size[N] = 0
      <4> HIDE DEF size
      <4> QED BY <2>3, <3>1
    <3>3. T[f[N]] = {}
      BY <2>1, <3>1, <3>2, KeysAreNumbers, FS_EmptySet
    <3>4. child[f[N]] = Null
      BY <3>1, <3>3, ChildFacts
    <3> QED BY <3>4
  <2> QED BY <2>2, <2>3
<1> DEFINE Stops == {i \in 0..N : Stop(f[i])}
<1>7. PICK n \in Stops : \A i \in Stops : n <= i
  <2>1. Stops \subseteq Nat /\ N \in Stops
    BY <1>0, <1>6
  <2> HIDE DEF Stops
  <2> QED BY <2>1, LeastNatural
<1>8. n \in 0..N /\ Stop(f[n]) /\ \A i \in 0..n - 1 : i \in 0..N /\ ~Stop(f[i])
  BY <1>7
<1>9. f[N + 1] = f[n]
  <2> DEFINE S == {j \in 0..N + 1 - n : f[n + j] = f[n]}
  <2>1. N + 1 - n \in Nat /\ n \in Nat
    BY <1>8
  <2>2. 0 \in S
    BY <1>8
  <2>3. \A j \in 0..(N + 1 - n) - 1 : j \in S => j + 1 \in S
    <3> SUFFICES ASSUME NEW j \in 0..(N + 1 - n) - 1, j \in S PROVE j + 1 \in S
      OBVIOUS
    <3>1. n + j \in 0..N /\ n + (j + 1) = (n + j) + 1 /\ j + 1 \in 0..N + 1 - n
      BY <2>1
    <3>2. f[n + j] = f[n]
      OBVIOUS
    <3>3. f[(n + j) + 1] = f[n + j]
      BY <1>3, <1>8, <3>1, <3>2
    <3> QED BY <3>1, <3>2, <3>3
  <2> HIDE DEF S
  <2>4. 0..N + 1 - n \subseteq S
    BY <2>1, <2>2, <2>3, InductionUpTo
  <2>5. N + 1 - n \in S /\ n + (N + 1 - n) = N + 1
    BY <2>1, <2>4
  <2> QED BY <2>5 DEF S
<1> DEFINE g == [i \in 0..n |-> f[i]]
<1>10. IsSearch(k, g, n)
  <2>1. \A i \in 0..n : i \in 0..N + 1
    BY <1>8
  <2>2. g \in [0..n -> Slots]
    BY <2>1
  <2>3. 0 \in 0..n /\ n \in 0..n /\ \A i \in 0..n - 1 : i \in 0..n /\ i + 1 \in 0..n
    BY <1>8
  <2>4. g[0] = Root /\ g[n] = SlotFor(k) /\ Stop(g[n])
    BY <1>1, <1>8, <1>9, <2>3
  <2>5. ASSUME NEW i \in 0..n - 1
        PROVE  /\ child[g[i]] # Null /\ key[child[g[i]]] # k
               /\ g[i + 1] = Toward(child[g[i]], k)
    <3>1. g[i] = f[i] /\ g[i + 1] = f[i + 1]
      BY <2>3
    <3> HIDE DEF g
    <3> QED BY <1>4, <1>8, <3>1
  <2> HIDE DEF g
  <2> QED BY <2>2, <2>4, <2>5 DEF IsSearch
<1> QED BY <1>0, <1>8, <1>10

\* One step towards its key keeps a node below.
LEMMA TowardNode ==
  ASSUME NEW T, IsTree(child, key, T), NEW n \in Used(key), NEW s \in Slots,
         n \in T[s], key[child[s]] # key[n]
  PROVE  child[s] # Null /\ n \in T[Toward(child[s], key[n])]
<1>1. child[s] # Null
  BY DEF IsTree, Covers
<1> DEFINE c == child[s]
<1>2. /\ c \in Nodes /\ T[s] = {c} \cup T[LeftOf(c)] \cup T[RightOf(c)] /\ key[c] \in Int
  BY <1>1, ChildFacts
<1>3. key[n] \in Int
  BY KeysAreNumbers
<1>4. /\ \A m \in T[LeftOf(c)] : key[m] < key[c]
      /\ \A m \in T[RightOf(c)] : key[c] < key[m]
  BY <1>1 DEF IsTree, Ordered
<1> HIDE DEF c
<1>5. n # c
  BY DEF c
<1>6. CASE key[n] < key[c]
  <2>1. n \in T[LeftOf(c)]
    <3>1. ~(key[c] < key[n])
      BY <1>2, <1>3, <1>6
    <3> QED BY <1>2, <1>4, <1>5, <3>1
  <2> QED BY <1>1, <1>2, <1>6, <2>1, TowardFacts DEF c
<1>7. CASE ~(key[n] < key[c])
  <2>1. n \in T[RightOf(c)]
    BY <1>2, <1>4, <1>5, <1>7
  <2> QED BY <1>1, <1>2, <1>7, <2>1, TowardFacts DEF c
<1> QED BY <1>6, <1>7

\* Where a search ends.
LEMMA SearchFinds ==
  ASSUME NEW T, IsTree(child, key, T), NEW k
  PROVE  /\ SlotFor(k) \in Slots
         /\ child[SlotFor(k)] # Null =>
              child[SlotFor(k)] \in Used(key) /\ key[child[SlotFor(k)]] = k
         /\ \A n \in Used(key) : key[n] = k => child[SlotFor(k)] = n
<1>a. PICK m \in 0..Cardinality(Nodes) : \E f : IsSearch(k, f, m)
  BY SearchEnds
<1>1. PICK f : IsSearch(k, f, m)
  BY <1>a
<1>2. m \in Nat /\ m \in 0..m /\ 0 \in 0..m
  BY <1>a, KeysAreNumbers
<1>3. SlotFor(k) \in Slots /\ (child[SlotFor(k)] = Null \/ key[child[SlotFor(k)]] = k)
  BY <1>1, <1>2 DEF IsSearch
<1>4. ASSUME NEW n \in Used(key), key[n] = k
      PROVE  child[SlotFor(k)] = n
  <2> DEFINE S == {i \in 0..m : n \in T[f[i]]}
  <2>1. 0 \in S
    BY <1>1, <1>2 DEF IsSearch, IsTree
  <2>2. ASSUME NEW i \in 0..m - 1, i \in S PROVE i + 1 \in S
    <3>1. i \in 0..m /\ i + 1 \in 0..m
      BY <1>2
    <3>2. /\ f[i] \in Slots /\ key[child[f[i]]] # k /\ f[i + 1] = Toward(child[f[i]], k)
      BY <1>1, <3>1 DEF IsSearch
    <3>3. n \in T[Toward(child[f[i]], k)]
      BY <1>4, <2>2, <3>2, TowardNode
    <3> QED BY <3>1, <3>2, <3>3
  <2> HIDE DEF S
  <2>3. m \in S
    BY <1>2, <2>1, <2>2, InductionUpTo
  <2>4. n \in T[SlotFor(k)]
    BY <1>1, <2>3 DEF S, IsSearch
  <2>5. child[SlotFor(k)] # Null
    BY <1>3, <2>4 DEF IsTree, Covers
  <2> DEFINE s == SlotFor(k)
             c == child[s]
  <2>6. /\ T[s] = {c} \cup T[LeftOf(c)] \cup T[RightOf(c)] /\ key[c] = k
        /\ \A x \in T[LeftOf(c)] : key[x] < key[c]
        /\ \A x \in T[RightOf(c)] : key[c] < key[x]
    BY <1>3, <2>5, ChildFacts DEF IsTree, Ordered
  <2>7. ~(key[n] < key[n]) /\ n \in T[s]
    BY <2>4, KeysAreNumbers
  <2> HIDE DEF s, c
  <2>8. n = c
    BY <1>4, <2>6, <2>7
  <2> QED BY <2>8 DEF c, s
<1>5. child[SlotFor(k)] # Null => child[SlotFor(k)] \in Used(key)
  BY <1>3, ChildFacts
<1> QED BY <1>3, <1>4, <1>5

\* Keys are not stored twice, and every node has its place.
LEMMA KeysDiffer ==
  ASSUME NEW T, IsTree(child, key, T), NEW n \in Used(key)
  PROVE  /\ SlotFor(key[n]) \in Slots /\ child[SlotFor(key[n])] = n
         /\ \A m \in Used(key) : key[m] = key[n] => m = n
BY SearchFinds

\* The slots on the way to k.
LEMMA SearchPath ==
  ASSUME NEW T, IsTree(child, key, T), NEW k
  PROVE  \E P \in SUBSET Slots :
           /\ Root \in P /\ SlotFor(k) \in P
           /\ \A t \in P : t = SlotFor(k) \/ (child[t] # Null /\ Toward(child[t], k) \in P)
           /\ \A t \in P : t = Root \/ \E u \in P : child[u] # Null /\ t = Toward(child[u], k)
<1>a. PICK m \in 0..Cardinality(Nodes) : \E f : IsSearch(k, f, m)
  BY SearchEnds
<1>1. PICK f : IsSearch(k, f, m)
  BY <1>a
<1>2. m \in Nat /\ m \in 0..m /\ 0 \in 0..m
  BY <1>a, KeysAreNumbers
<1> DEFINE P == {f[i] : i \in 0..m}
<1>3. P \in SUBSET Slots /\ Root \in P /\ SlotFor(k) \in P
  BY <1>1, <1>2 DEF IsSearch
<1>4. ASSUME NEW t \in P
      PROVE  /\ t = SlotFor(k) \/ (child[t] # Null /\ Toward(child[t], k) \in P)
             /\ t = Root \/ \E u \in P : child[u] # Null /\ t = Toward(child[u], k)
  <2>1. PICK i \in 0..m : t = f[i]
    OBVIOUS
  <2>2. t = SlotFor(k) \/ (child[t] # Null /\ Toward(child[t], k) \in P)
    <3>1. CASE i = m
      BY <1>1, <2>1, <3>1 DEF IsSearch
    <3>2. CASE i # m
      <4>1. i \in 0..m - 1 /\ i + 1 \in 0..m
        BY <1>2, <3>2
      <4>2. child[f[i]] # Null /\ f[i + 1] = Toward(child[f[i]], k)
        BY <1>1, <4>1 DEF IsSearch
      <4> QED BY <2>1, <4>1, <4>2
    <3> QED BY <3>1, <3>2
  <2>3. t = Root \/ \E u \in P : child[u] # Null /\ t = Toward(child[u], k)
    <3>1. CASE i = 0
      BY <1>1, <2>1, <3>1 DEF IsSearch
    <3>2. CASE i # 0
      <4>1. i - 1 \in 0..m - 1 /\ i - 1 \in 0..m /\ (i - 1) + 1 = i
        BY <1>2, <3>2
      <4>2. child[f[i - 1]] # Null /\ f[i] = Toward(child[f[i - 1]], k)
        BY <1>1, <4>1 DEF IsSearch
      <4> QED BY <2>1, <4>1, <4>2
    <3> QED BY <3>1, <3>2
  <2> QED BY <2>2, <2>3
<1> QED BY <1>3, <1>4

\* The nodes next to those in X, from which Below is made.
NextTo(X) == X \cup ({child[s] : s \in X \X {"left", "right"}} \ {Null})

IsReach(f, N) ==
  /\ f \in [0..N -> SUBSET Nodes] /\ f[0] = {child[Root]} \ {Null} /\ f[N] = Below
  /\ \A i \in 0..N - 1 : f[i + 1] = NextTo(f[i])

LEMMA BelowUnfolds ==
  ASSUME NEW T, IsTree(child, key, T), NEW N, N = Cardinality(Nodes)
  PROVE  \E f : IsReach(f, N)
<1> DEFINE first == {child[Root]} \ {Null}
           step == [i \in 1..N |-> [X \in SUBSET Nodes |-> NextTo(X)]]
           P(g) == g = [d \in 0..N |->
                     IF d = 0 THEN {child[Root]} \ {Null}
                     ELSE LET above == g[d - 1] IN
                          above \cup ({child[s] : s \in above \X {"left", "right"}} \ {Null})]
<1>0. N \in Nat /\ first \in SUBSET Nodes
  BY TreeAssumption, FS_CardinalityType, SlotFacts DEF IsTree
<1>1. step \in [1..N -> [SUBSET Nodes -> SUBSET Nodes]]
  <2>1. \A s \in Nodes \X {"left", "right"} : s \in Slots /\ child[s] \in Nodes \cup {Null}
    BY DEF Slots, IsTree
  <2>2. \A X \in SUBSET Nodes : NextTo(X) \in SUBSET Nodes
    BY <2>1 DEF NextTo
  <2> QED BY <2>2
<1>2. PICK f \in [0..N -> SUBSET Nodes] : IsRecursion(f, N, first, step)
  <2> HIDE DEF step, first
  <2> QED BY <1>0, <1>1, RecursionUpTo
<1>3. f[0] = first /\ \A i \in 1..N : f[i] = NextTo(f[i - 1])
  <2>1. \A i \in 1..N : i - 1 \in 0..N
    BY <1>0
  <2>2. \A i \in 1..N : f[i - 1] \in SUBSET Nodes
    BY <1>2, <2>1
  <2> HIDE DEF first
  <2> QED BY <1>2, <2>2 DEF IsRecursion
<1>4. P(f)
  <2>1. \A d \in 0..N : d = 0 \/ d \in 1..N
    BY <1>0
  <2> QED BY <1>3, <2>1 DEF NextTo
<1> DEFINE c == CHOOSE g : P(g)
<1>5. P(c)
  <2> HIDE DEF P
  <2> QED BY <1>4
<1>6. 0..N \subseteq {i \in 0..N : c[i] = f[i]}
  <2> DEFINE S == {i \in 0..N : c[i] = f[i]}
  <2> HIDE DEF c
  <2>1. c[0] = first /\ \A i \in 1..N : c[i] = NextTo(c[i - 1])
    <3>1. 0 \in 0..N /\ \A i \in 1..N : i \in 0..N /\ i # 0
      BY <1>0
    <3> QED BY <1>5, <3>1 DEF NextTo
  <2> HIDE DEF first
  <2>2. 0 \in S
    BY <1>0, <1>3, <2>1
  <2>3. \A i \in 0..N - 1 : i \in S => i + 1 \in S
    <3>1. \A i \in 0..N - 1 : i + 1 \in 1..N /\ i + 1 \in 0..N /\ (i + 1) - 1 = i
      BY <1>0
    <3> QED BY <1>3, <2>1, <3>1
  <2> HIDE DEF S
  <2>4. 0..N \subseteq S
    BY <1>0, <2>2, <2>3, InductionUpTo
  <2> QED BY <2>4 DEF S
<1>7. Below = c[N]
  BY DEF Below
<1>8. c[N] = f[N]
  <2> HIDE DEF c
  <2>1. N \in 0..N
    BY <1>0
  <2> QED BY <1>6, <2>1
<1>9. \A i \in 0..N - 1 : f[i + 1] = NextTo(f[i])
  <2>1. \A i \in 0..N - 1 : i + 1 \in 1..N /\ (i + 1) - 1 = i
    BY <1>0
  <2> QED BY <1>3, <2>1
<1>10. IsReach(f, N)
  BY <1>3, <1>7, <1>8, <1>9 DEF IsReach
<1> QED BY <1>10

\* bt_free_rec reaches the nodes that are allocated.
LEMMA BelowIsAll ==
  ASSUME NEW T, IsTree(child, key, T)
  PROVE  Below = Used(key)
<1>0. PICK N \in Nat : N = Cardinality(Nodes)
  BY TreeAssumption, FS_CardinalityType
<1>1. PICK f : IsReach(f, N)
  BY <1>0, BelowUnfolds
<1>2. \A s \in Slots : child[s] # Null => child[s] \in Used(key)
  BY ChildFacts
<1>3. Below \subseteq Used(key)
  <2> DEFINE S == {i \in 0..N : f[i] \subseteq Used(key)}
  <2>1. 0 \in S
    BY <1>0, <1>1, <1>2, SlotFacts DEF IsReach
  <2>2. ASSUME NEW i \in 0..N - 1, i \in S PROVE i + 1 \in S
    <3>1. i \in 0..N /\ i + 1 \in 0..N
      BY <1>0
    <3>2. f[i] \subseteq Nodes /\ f[i] \subseteq Used(key) /\ f[i + 1] = NextTo(f[i])
      BY <1>1, <2>2, <3>1 DEF IsReach
    <3>3. \A s \in f[i] \X {"left", "right"} : s \in Slots
      BY <3>2 DEF Slots
    <3> QED BY <1>2, <3>1, <3>2, <3>3 DEF NextTo
  <2> HIDE DEF S
  <2>3. N \in S
    <3>1. N \in 0..N
      BY <1>0
    <3> QED BY <1>0, <2>1, <2>2, <3>1, InductionUpTo
  <2> QED BY <1>1, <2>3 DEF S, IsReach
<1>4. ASSUME NEW x \in Used(key)
      PROVE  x \in Below
  <2> DEFINE k == key[x]
  <2>a. PICK m \in 0..Cardinality(Nodes) : \E g : IsSearch(k, g, m)
    BY SearchEnds
  <2>1. PICK g : IsSearch(k, g, m)
    BY <2>a
  <2>2. m \in Nat /\ m <= N /\ m \in 0..m /\ 0 \in 0..m
    BY <1>0, <2>a
  <2>3. \A i \in 0..m : g[i] \in Slots /\ child[g[i]] # Null /\ child[g[i]] \in Nodes
    <3> SUFFICES ASSUME NEW i \in 0..m
                 PROVE  g[i] \in Slots /\ child[g[i]] # Null
      BY ChildFacts
    <3>1. CASE i = m
      <4>1. child[g[m]] = x /\ x \in Nodes
        BY <2>1, KeysDiffer, KeysAreNumbers DEF IsSearch
      <4> QED BY <2>1, <3>1, <4>1, TreeAssumption DEF IsSearch
    <3>2. CASE i # m
      <4>1. i \in 0..m - 1
        BY <2>2, <3>2
      <4> QED BY <2>1, <4>1 DEF IsSearch
    <3> QED BY <3>1, <3>2
  <2> DEFINE S == {i \in 0..m : child[g[i]] \in f[i]}
  <2>4. 0 \in S
    BY <1>1, <2>1, <2>2, <2>3 DEF IsSearch, IsReach
  <2>5. ASSUME NEW i \in 0..m - 1, i \in S PROVE i + 1 \in S
    <3>1. i \in 0..m /\ i + 1 \in 0..m /\ i \in 0..N - 1
      BY <1>0, <2>2
    <3>2. g[i + 1] = Toward(child[g[i]], k) /\ f[i + 1] = NextTo(f[i])
      BY <1>1, <2>1, <3>1 DEF IsSearch, IsReach
    <3>3. g[i + 1] \in f[i] \X {"left", "right"}
      BY <2>5, <3>2 DEF Toward
    <3>4. child[g[i + 1]] # Null
      BY <2>3, <3>1
    <3> QED BY <3>1, <3>2, <3>3, <3>4 DEF NextTo
  <2>6. child[g[m]] \in f[m]
    <3> HIDE DEF S
    <3>1. m \in S
      BY <2>2, <2>4, <2>5, InductionUpTo
    <3> QED BY <3>1 DEF S
  <2>7. x \in f[m]
    BY <2>1, <2>6, KeysDiffer DEF IsSearch
  <2> DEFINE R == {j \in 0..N - m : x \in f[m + j]}
  <2>8. 0 \in R /\ N - m \in Nat
    BY <1>0, <2>2, <2>7
  <2>9. ASSUME NEW j \in 0..(N - m) - 1, j \in R PROVE j + 1 \in R
    <3>1. m + j \in 0..N - 1 /\ m + (j + 1) = (m + j) + 1 /\ j + 1 \in 0..N - m
      BY <1>0, <2>2
    <3>2. f[(m + j) + 1] = NextTo(f[m + j])
      BY <1>1, <3>1 DEF IsReach
    <3> QED BY <2>9, <3>1, <3>2 DEF NextTo
  <2> HIDE DEF R
  <2>10. N - m \in R /\ m + (N - m) = N
    <3>1. N - m \in 0..N - m
      BY <2>8
    <3> QED BY <1>0, <2>2, <2>8, <2>9, <3>1, InductionUpTo
  <2> QED BY <1>1, <2>10 DEF R, IsReach
<1> QED BY <1>3, <1>4

\* The invariant says that the tree is well formed.
LEMMA TreeIsWellFormed == TreeInv => WellFormed
<1> SUFFICES ASSUME NEW T, IsTree(child, key, T) PROVE WellFormed
  BY DEF TreeInv
<1>1. Allocated = Used(key) /\ Below = Allocated
  BY BelowIsAll DEF Allocated, Used
<1>2. \A n \in Allocated : child[SlotFor(key[n])] = n
  BY <1>1, KeysDiffer
<1> DEFINE S == {s \in {Root} \cup (Allocated \X {"left", "right"}) : child[s] # Null}
           f == [s \in S |-> child[s]]
<1>3. Allocated \subseteq Nodes /\ S \subseteq Slots /\ IsFiniteSet(Allocated)
  BY <1>1, KeysAreNumbers, TreeAssumption, FS_Subset DEF Slots, Allocated
<1>4. \A s \in S : child[s] \in Allocated
  BY <1>1, <1>3, ChildFacts
<1>5. f \in Injection(S, Allocated)
  <2>1. \A s, t \in S : child[s] = child[t] => s = t
    BY <1>3 DEF IsTree, OneParent
  <2> QED BY <1>4, <2>1 DEF Injection, IsInjective
<1>6. f \in Surjection(S, Allocated)
  <2>1. ASSUME NEW n \in Allocated
        PROVE  \E s \in S : child[s] = n
    <3> DEFINE s == SlotFor(key[n])
    <3>1. s \in Slots /\ child[s] = n /\ n # Null
      BY <1>1, <1>3, KeysDiffer, TreeAssumption
    <3>2. s \in {Root} \cup (Allocated \X {"left", "right"})
      <4> HIDE DEF s
      <4>1. \A m \in Nodes \ Used(key) : child[LeftOf(m)] = Null /\ child[RightOf(m)] = Null
        BY DEF IsTree
      <4>2. CASE s \in Nodes \X {"left", "right"}
        <5>1. PICK m \in Nodes, d \in {"left", "right"} : s = <<m, d>>
          BY <4>2
        <5>2. m \in Used(key)
          BY <3>1, <4>1, <5>1 DEF LeftOf, RightOf
        <5> QED BY <1>1, <5>1, <5>2
      <4> QED BY <3>1, <4>2 DEF Slots
    <3> QED BY <3>1, <3>2
  <2> QED BY <1>4, <2>1 DEF Surjection
<1>7. f \in Bijection(S, Allocated)
  BY <1>5, <1>6 DEF Bijection
<1>8. ExistsBijection(S, Allocated)
  BY <1>7 DEF ExistsBijection
<1>9. ExistsBijection(Allocated, S)
  BY <1>8, Fun_ExistsBijSymmetric
<1>10. Cardinality(S) = Cardinality(Allocated)
  <2> HIDE DEF S
  <2> QED BY <1>3, <1>9, FS_Bijection, FS_SameCardinalityBij
<1> QED BY <1>1, <1>2, <1>10 DEF WellFormed

\* A step to the left, in the slots that hold a node.
LeftStep(s) == IF child[LeftOf(child[s])] = Null THEN s ELSE LeftOf(child[s])
Filled == {s \in Slots : child[s] # Null}

IsLeftWay(n, f, N) ==
  /\ f \in [0..N -> Filled] /\ f[0] = RightOf(n) /\ f[N] = Leftmost(n)
  /\ \A i \in 0..N - 1 : f[i + 1] = LeftStep(f[i])

LEMMA LeftStepType ==
  ASSUME NEW T, IsTree(child, key, T), NEW s \in Filled
  PROVE  LeftStep(s) \in Filled
<1>1. LeftOf(child[s]) \in Slots
  BY ChildFacts DEF Filled
<1> QED BY <1>1 DEF LeftStep, Filled

LEMMA LeftmostUnfolds ==
  ASSUME NEW T, IsTree(child, key, T), NEW n \in Nodes, child[RightOf(n)] # Null,
         NEW N, N = Cardinality(Nodes)
  PROVE  \E f : IsLeftWay(n, f, N)
<1> DEFINE step == [i \in 1..N |-> [s \in Filled |-> LeftStep(s)]]
           P(g) == g = [d \in 0..N |->
                     IF d = 0 THEN <<n, "right">>
                     ELSE LET s == g[d - 1]
                              left == <<child[s], "left">>
                          IN  IF child[left] = Null THEN s ELSE left]
<1>0. N \in Nat /\ RightOf(n) \in Filled
  BY TreeAssumption, FS_CardinalityType, SlotFacts DEF Filled
<1>1. step \in [1..N -> [Filled -> Filled]]
  BY LeftStepType
<1>2. PICK f \in [0..N -> Filled] : IsRecursion(f, N, RightOf(n), step)
  <2> HIDE DEF step
  <2> QED BY <1>0, <1>1, RecursionUpTo
<1>3. f[0] = RightOf(n) /\ \A i \in 1..N : f[i] = LeftStep(f[i - 1])
  <2>1. \A i \in 1..N : i - 1 \in 0..N
    BY <1>0
  <2>2. \A i \in 1..N : f[i - 1] \in Filled
    BY <1>2, <2>1
  <2> QED BY <1>2, <2>2 DEF IsRecursion
<1>4. P(f)
  <2>1. \A d \in 0..N : d = 0 \/ d \in 1..N
    BY <1>0
  <2> QED BY <1>3, <2>1 DEF LeftStep, LeftOf, RightOf
<1> DEFINE c == CHOOSE g : P(g)
<1>5. P(c)
  <2> HIDE DEF P
  <2> QED BY <1>4
<1>6. 0..N \subseteq {i \in 0..N : c[i] = f[i]}
  <2> DEFINE S == {i \in 0..N : c[i] = f[i]}
  <2> HIDE DEF c
  <2>1. c[0] = RightOf(n) /\ \A i \in 1..N : c[i] = LeftStep(c[i - 1])
    <3>1. 0 \in 0..N /\ \A i \in 1..N : i \in 0..N /\ i # 0
      BY <1>0
    <3> QED BY <1>5, <3>1 DEF LeftStep, LeftOf, RightOf
  <2>2. 0 \in S
    BY <1>0, <1>3, <2>1
  <2>3. \A i \in 0..N - 1 : i \in S => i + 1 \in S
    <3>1. \A i \in 0..N - 1 : i + 1 \in 1..N /\ i + 1 \in 0..N /\ (i + 1) - 1 = i
      BY <1>0
    <3> QED BY <1>3, <2>1, <3>1
  <2> HIDE DEF S
  <2>4. 0..N \subseteq S
    BY <1>0, <2>2, <2>3, InductionUpTo
  <2> QED BY <2>4 DEF S
<1>7. Leftmost(n) = c[N]
  BY DEF Leftmost
<1>8. c[N] = f[N]
  <2> HIDE DEF c
  <2>1. N \in 0..N
    BY <1>0
  <2> QED BY <1>6, <2>1
<1>9. \A i \in 0..N - 1 : f[i + 1] = LeftStep(f[i])
  <2>1. \A i \in 0..N - 1 : i + 1 \in 1..N /\ (i + 1) - 1 = i
    BY <1>0
  <2> QED BY <1>3, <2>1
<1>10. IsLeftWay(n, f, N)
  BY <1>3, <1>7, <1>8, <1>9 DEF IsLeftWay
<1> QED BY <1>10

\* To the left, what is below has smaller keys than what was left behind.
LEMMA SmallerOnTheLeft ==
  ASSUME NEW T, IsTree(child, key, T), NEW top \in Slots, NEW s \in Filled,
         T[s] \subseteq T[top],
         \A z \in T[top] : z \in T[s] \/ \A w \in T[s] : key[w] < key[z]
  PROVE  /\ T[LeftStep(s)] \subseteq T[top]
         /\ \A z \in T[top] : z \in T[LeftStep(s)] \/ \A w \in T[LeftStep(s)] : key[w] < key[z]
<1> DEFINE c == child[s]
<1>1. CASE child[LeftOf(c)] = Null
  BY <1>1 DEF LeftStep
<1>2. CASE child[LeftOf(c)] # Null
  <2>1. LeftStep(s) = LeftOf(c)
    BY <1>2 DEF LeftStep
  <2>2. /\ s \in Slots /\ c # Null /\ c \in Nodes /\ key[c] \in Int
        /\ T[s] = {c} \cup T[LeftOf(c)] \cup T[RightOf(c)]
    BY ChildFacts DEF Filled
  <2>3. /\ \A w \in T[LeftOf(c)] : key[w] < key[c]
        /\ \A w \in T[RightOf(c)] : key[c] < key[w]
    BY <2>2 DEF IsTree, Ordered
  <2>4. \A w \in T[s] : key[w] \in Int
    BY <2>2, KeysAreNumbers
  <2> HIDE DEF c
  <2>5. ASSUME NEW z \in T[top], z \notin T[LeftOf(c)], NEW w \in T[LeftOf(c)]
        PROVE  key[w] < key[z]
    <3>1. w \in T[s] /\ key[w] \in Int
      BY <2>2, <2>4
    <3>2. CASE z \notin T[s]
      BY <3>1, <3>2
    <3>3. CASE z = c
      BY <2>3, <3>3
    <3>4. CASE z \in T[RightOf(c)]
      <4>1. key[z] \in Int /\ key[w] < key[c] /\ key[c] < key[z]
        BY <2>2, <2>3, <2>4, <3>4
      <4> QED BY <2>2, <3>1, <4>1
    <3> QED BY <2>2, <2>5, <3>2, <3>3, <3>4
  <2>6. T[LeftOf(c)] \subseteq T[top]
    BY <2>2
  <2> QED BY <2>1, <2>5, <2>6
<1> QED BY <1>1, <1>2

\* The slot found holds the next larger key, and nothing is left of it.
LEMMA LeftmostFinds ==
  ASSUME NEW T, IsTree(child, key, T), NEW n \in Nodes, child[RightOf(n)] # Null
  PROVE  LET from == Leftmost(n)
             m == child[from]
         IN  /\ from \in Slots /\ m # Null /\ child[LeftOf(m)] = Null
             /\ m \in T[RightOf(n)]
             /\ \A y \in T[RightOf(n)] : y = m \/ key[m] < key[y]
<1>0. PICK N \in Nat : N = Cardinality(Nodes)
  BY TreeAssumption, FS_CardinalityType
<1>1. PICK f : IsLeftWay(n, f, N)
  BY <1>0, LeftmostUnfolds
<1> DEFINE top == RightOf(n)
           Stop(s) == child[LeftOf(child[s])] = Null
           J(s) == /\ T[s] \subseteq T[top]
                   /\ \A z \in T[top] : z \in T[s] \/ \A w \in T[s] : key[w] < key[z]
           size == [i \in 0..N |-> Cardinality(T[f[i]])]
           S == {i \in 0..N : J(f[i]) /\ (Stop(f[i]) \/ size[i] <= N - i)}
<1>2. \A i \in 0..N : /\ f[i] \in Filled /\ f[i] \in Slots /\ child[f[i]] # Null
                      /\ size[i] \in Nat
  <2>1. \A i \in 0..N : f[i] \in Filled /\ f[i] \in Slots /\ child[f[i]] # Null
    BY <1>1 DEF IsLeftWay, Filled
  <2> QED BY <2>1, KeysAreNumbers
<1>3. top \in Slots
  BY SlotFacts
<1>4. 0 \in S
  <2>1. f[0] = top /\ 0 \in 0..N /\ N - 0 = N
    BY <1>0, <1>1 DEF IsLeftWay
  <2>2. Cardinality(T[top]) <= N
    BY <1>0, <1>3, KeysAreNumbers
  <2>3. size[0] <= N - 0
    BY <2>1, <2>2
  <2> HIDE DEF size
  <2> QED BY <2>1, <2>3
<1>5. ASSUME NEW i \in 0..N - 1, i \in S PROVE i + 1 \in S
  <2>1. i \in 0..N /\ i + 1 \in 0..N
    BY <1>0
  <2>2. f[i + 1] = LeftStep(f[i])
    BY <1>1 DEF IsLeftWay
  <2>3. J(f[i + 1])
    BY <1>2, <1>3, <1>5, <2>1, <2>2, SmallerOnTheLeft
  <2>4. CASE Stop(f[i])
    BY <2>1, <2>2, <2>3, <2>4 DEF LeftStep
  <2>5. CASE ~Stop(f[i])
    <3>1. f[i + 1] = LeftOf(child[f[i]])
      BY <2>2, <2>5 DEF LeftStep
    <3>2. Cardinality(T[f[i + 1]]) < Cardinality(T[f[i]])
      BY <1>2, <2>1, <3>1, FewerBelow
    <3>3. size[i + 1] < size[i] /\ size[i + 1] \in Nat /\ size[i] \in Nat /\ size[i] <= N - i
      BY <1>2, <1>5, <2>1, <2>5, <3>2
    <3> HIDE DEF size, J
    <3>4. size[i + 1] <= N - (i + 1)
      BY <1>0, <3>3
    <3> QED BY <2>1, <2>3, <3>4
  <2> QED BY <2>4, <2>5
<1>6. N \in S
  <2> HIDE DEF S
  <2>1. N \in 0..N
    BY <1>0
  <2> QED BY <1>0, <1>4, <1>5, <2>1, InductionUpTo
<1> DEFINE s == f[N]
           m == child[s]
<1>7. /\ s = Leftmost(n) /\ s \in Slots /\ m # Null /\ m \in T[s]
      /\ T[s] = {m} \cup T[LeftOf(m)] \cup T[RightOf(m)]
  BY <1>1, <1>2, <1>6, ChildFacts DEF IsLeftWay
<1>8. Stop(s)
  <2> SUFFICES ASSUME ~Stop(s) PROVE FALSE
    OBVIOUS
  <2>1. size[N] <= N - N /\ size[N] \in Nat
    BY <1>2, <1>6
  <2>2. size[N] = 0
    <3> HIDE DEF size
    <3> QED BY <1>0, <2>1
  <2>3. Cardinality(T[s]) = 0 /\ IsFiniteSet(T[s])
    BY <1>6, <1>7, <2>2, KeysAreNumbers
  <2>4. T[s] = {}
    BY <2>3, FS_EmptySet
  <2> QED BY <1>7, <2>4
<1>9. J(s)
  BY <1>6
<1>10. T[LeftOf(m)] = {} /\ \A y \in T[RightOf(m)] : key[m] < key[y]
  <2>1. LeftOf(m) \in Slots
    BY <1>7, ChildFacts
  <2> QED BY <1>7, <1>8, <2>1 DEF IsTree, Covers, Ordered
<1> HIDE DEF s, m
<1>11. m \in T[top] /\ \A y \in T[top] : y = m \/ key[m] < key[y]
  BY <1>7, <1>9, <1>10
<1> QED BY <1>7, <1>8, <1>11 DEF s, m

\* Node x is taken out of slot u; the child it may have takes its place.
WithoutNode(ch, u, x, other) ==
  [ch EXCEPT ![u] = other, ![LeftOf(x)] = Null, ![RightOf(x)] = Null]
BelowWithout(T, x) ==
  [t \in Slots |-> IF t \in {LeftOf(x), RightOf(x)} THEN {} ELSE T[t] \ {x}]

\* The tree without x.
IsWithout(x, T, ch, T2) ==
  /\ ch \in [Slots -> Nodes \cup {Null}] /\ Covers(ch, T2) /\ OneParent(ch)
  /\ T2 \in [Slots -> SUBSET (Used(key) \ {x})] /\ T2[Root] = Used(key) \ {x}
  /\ \A t \in Slots : T2[t] \subseteq T[t] \ {x}
  /\ \A n \in Nodes \ (Used(key) \ {x}) : ch[LeftOf(n)] = Null /\ ch[RightOf(n)] = Null
  /\ \A t \in Slots : ch[t] # Null =>
       ch[t] # x /\ \E s \in Slots : child[s] = ch[t]

LEMMA WithoutNodeFacts ==
  ASSUME NEW T, IsTree(child, key, T), NEW u \in Slots, NEW x, child[u] = x, x # Null,
         NEW o \in {LeftOf(x), RightOf(x)},
         \A p \in {LeftOf(x), RightOf(x)} : p = o \/ child[p] = Null
  PROVE  IsWithout(x, T, WithoutNode(child, u, x, child[o]), BelowWithout(T, x))
<1>a. PICK ch : ch = WithoutNode(child, u, x, child[o])
  OBVIOUS
<1>b. PICK T2 : T2 = BelowWithout(T, x)
  OBVIOUS
<1> USE <1>a, <1>b
<1>1. /\ x \in Nodes /\ x \in Used(key) /\ T[u] = {x} \cup T[LeftOf(x)] \cup T[RightOf(x)]
      /\ x \notin T[LeftOf(x)] /\ x \notin T[RightOf(x)]
      /\ LeftOf(x) \in Slots /\ RightOf(x) \in Slots
      /\ u # LeftOf(x) /\ u # RightOf(x)
  BY ChildFacts
<1>2. /\ child \in [Slots -> Nodes \cup {Null}] /\ T \in [Slots -> SUBSET Used(key)]
      /\ T[Root] = Used(key) /\ OneParent(child) /\ Covers(child, T)
      /\ \A n \in Nodes \ Used(key) : child[LeftOf(n)] = Null /\ child[RightOf(n)] = Null
  BY DEF IsTree
<1>3. o \in Slots /\ child[o] \in Nodes \cup {Null}
  BY <1>1, <1>2
<1>4. /\ ch \in [Slots -> Nodes \cup {Null}]
      /\ ch[u] = child[o] /\ ch[LeftOf(x)] = Null /\ ch[RightOf(x)] = Null
      /\ \A t \in Slots : t \notin {u, LeftOf(x), RightOf(x)} => ch[t] = child[t]
  <2>1. LeftOf(x) # RightOf(x)
    BY <1>1, SlotFacts
  <2> QED BY <1>1, <1>2, <1>3, <2>1 DEF WithoutNode
<1>5. /\ T2[LeftOf(x)] = {} /\ T2[RightOf(x)] = {}
      /\ \A t \in Slots : t \notin {LeftOf(x), RightOf(x)} => T2[t] = T[t] \ {x}
  BY <1>1 DEF BelowWithout
<1>6. \A t \in Slots : T2[t] \subseteq T[t] \ {x}
  BY <1>5
<1>7. T2 \in [Slots -> SUBSET (Used(key) \ {x})] /\ T2[Root] = Used(key) \ {x}
  <2>1. Root \in Slots /\ Root \notin {LeftOf(x), RightOf(x)}
    BY <1>1, SlotFacts
  <2>2. \A t \in Slots : T2[t] \in SUBSET (Used(key) \ {x})
    BY <1>2, <1>6
  <2>3. T2 = [t \in Slots |-> T2[t]]
    BY DEF BelowWithout
  <2> QED BY <1>2, <1>5, <2>1, <2>2, <2>3
<1>8. \A t \in Slots : t # u => child[t] # x
  BY <1>1, <1>2, TreeAssumption DEF OneParent
<1>9. child[o] # x
  BY <1>1, <1>3, <1>8
<1>10. \A t \in Slots : ch[t] # Null => ch[t] # x /\ \E s \in Slots : child[s] = ch[t]
  BY <1>3, <1>4, <1>8, <1>9
<1>11. \A n \in Nodes \ (Used(key) \ {x}) : ch[LeftOf(n)] = Null /\ ch[RightOf(n)] = Null
  <2> SUFFICES ASSUME NEW n \in Nodes \ (Used(key) \ {x})
               PROVE  ch[LeftOf(n)] = Null /\ ch[RightOf(n)] = Null
    OBVIOUS
  <2>1. CASE n = x
    BY <1>4, <2>1
  <2>2. CASE n # x
    <3>1. child[LeftOf(n)] = Null /\ child[RightOf(n)] = Null
      BY <1>2, <2>2
    <3>2. LeftOf(n) \in Slots /\ RightOf(n) \in Slots
      BY SlotFacts
    <3>3. LeftOf(n) # u /\ RightOf(n) # u
      BY <3>1
    <3> QED BY <1>4, <3>1, <3>2, <3>3
  <2> QED BY <2>1, <2>2
<1>12. OneParent(ch)
  <2> SUFFICES ASSUME NEW s \in Slots, NEW t \in Slots, ch[s] = ch[t], ch[s] # Null
               PROVE  s = t
    BY DEF OneParent
  <2>1. s \notin {LeftOf(x), RightOf(x)} /\ t \notin {LeftOf(x), RightOf(x)}
    BY <1>4
  <2>2. CASE s # u /\ t # u
    BY <1>2, <1>4, <2>1, <2>2 DEF OneParent
  <2>3. CASE s = u /\ t # u
    <3>1. child[t] = child[o] /\ child[t] # Null
      BY <1>4, <2>1, <2>3
    <3>2. t = o
      BY <1>2, <1>3, <3>1 DEF OneParent
    <3> QED BY <2>1, <3>2
  <2>4. CASE s # u /\ t = u
    <3>1. child[s] = child[o] /\ child[s] # Null
      BY <1>4, <2>1, <2>4
    <3>2. s = o
      BY <1>2, <1>3, <3>1 DEF OneParent
    <3> QED BY <2>1, <3>2
  <2> QED BY <2>2, <2>3, <2>4
<1>13. Covers(ch, T2)
  <2> SUFFICES ASSUME NEW t \in Slots
               PROVE  T2[t] = IF ch[t] = Null THEN {}
                              ELSE {ch[t]} \cup T2[LeftOf(ch[t])] \cup T2[RightOf(ch[t])]
    BY DEF Covers
  <2>1. CASE t \in {LeftOf(x), RightOf(x)}
    BY <1>4, <1>5, <2>1
  <2>2. \A c \in Nodes : c # x =>
          /\ LeftOf(c) \in Slots /\ RightOf(c) \in Slots
          /\ T2[LeftOf(c)] = T[LeftOf(c)] \ {x} /\ T2[RightOf(c)] = T[RightOf(c)] \ {x}
    <3>1. \A c \in Nodes : c # x => /\ LeftOf(c) \in Slots /\ RightOf(c) \in Slots
                                    /\ LeftOf(c) \notin {LeftOf(x), RightOf(x)}
                                    /\ RightOf(c) \notin {LeftOf(x), RightOf(x)}
      BY <1>1, SlotFacts
    <3> QED BY <1>5, <3>1
  <2>3. CASE t = u
    <3>1. T[u] \ {x} = T[o]
      <4>1. \A p \in {LeftOf(x), RightOf(x)} : p = o \/ T[p] = {}
        BY <1>1, <1>2 DEF Covers
      <4> QED BY <1>1, <4>1
    <3>2. T2[u] = T[o] /\ ch[u] = child[o]
      BY <1>1, <1>4, <1>5, <3>1
    <3>3. CASE child[o] = Null
      BY <1>2, <1>3, <2>3, <3>2, <3>3 DEF Covers
    <3>4. CASE child[o] # Null
      <4> DEFINE c == child[o]
      <4>1. T[o] = {c} \cup T[LeftOf(c)] \cup T[RightOf(c)] /\ c \in Nodes
        BY <1>3, <3>4, ChildFacts
      <4>2. T2[LeftOf(c)] = T[LeftOf(c)] \ {x} /\ T2[RightOf(c)] = T[RightOf(c)] \ {x}
        BY <1>9, <2>2, <4>1
      <4>3. x \notin T[o]
        BY <1>1
      <4> HIDE DEF c
      <4>4. T[o] = {c} \cup T2[LeftOf(c)] \cup T2[RightOf(c)]
        BY <4>1, <4>2, <4>3
      <4> QED BY <2>3, <3>2, <3>4, <4>4 DEF c
    <3> QED BY <3>3, <3>4
  <2>4. CASE t \notin {u, LeftOf(x), RightOf(x)}
    <3>1. ch[t] = child[t] /\ T2[t] = T[t] \ {x} /\ child[t] # x
      BY <1>4, <1>5, <1>8, <2>4
    <3>2. CASE child[t] = Null
      BY <1>2, <3>1, <3>2 DEF Covers
    <3>3. CASE child[t] # Null
      <4> DEFINE c == child[t]
      <4>1. T[t] = {c} \cup T[LeftOf(c)] \cup T[RightOf(c)] /\ c \in Nodes
        BY <3>3, ChildFacts
      <4>2. T2[LeftOf(c)] = T[LeftOf(c)] \ {x} /\ T2[RightOf(c)] = T[RightOf(c)] \ {x}
        BY <2>2, <3>1, <4>1
      <4>3. c # x
        BY <3>1
      <4> HIDE DEF c
      <4>4. T[t] \ {x} = {c} \cup T2[LeftOf(c)] \cup T2[RightOf(c)]
        BY <4>1, <4>2, <4>3
      <4> QED BY <3>1, <3>3, <4>4 DEF c
    <3> QED BY <3>2, <3>3
  <2> QED BY <2>1, <2>3, <2>4
<1> QED BY <1>4, <1>6, <1>7, <1>10, <1>11, <1>12, <1>13 DEF IsWithout

\* bt_delete of a node with at most one child.
LEMMA DeleteLinkKeepsTree ==
  ASSUME NEW T, IsTree(child, key, T), NEW k \in Keys, DeleteLink(k)
  PROVE  \E T2 \in [Slots -> SUBSET Nodes] : IsTree(child', key', T2)
<1> DEFINE u == SlotFor(k)
           x == child[u]
           o == IF child[LeftOf(x)] # Null THEN LeftOf(x) ELSE RightOf(x)
           T2 == BelowWithout(T, x)
<1>1. u \in Slots /\ child[u] = x /\ x # Null /\ x \in Used(key) /\ x \in Nodes
  BY SearchFinds, ChildFacts DEF DeleteLink, Found
<1>2. child[LeftOf(x)] = Null \/ child[RightOf(x)] = Null
  BY DEF DeleteLink, LeftOf, RightOf
<1>3. child' = WithoutNode(child, u, x, child[o]) /\ key' = [key EXCEPT ![x] = Null]
  BY DEF DeleteLink, WithoutNode, LeftOf, RightOf, Free
<1>4. o \in {LeftOf(x), RightOf(x)} /\ \A p \in {LeftOf(x), RightOf(x)} : p = o \/ child[p] = Null
  BY <1>2
<1>5. key \in [Nodes -> Keys \cup {Null}]
  BY DEF IsTree
<1>6. /\ key' \in [Nodes -> Keys \cup {Null}] /\ Used(key') = Used(key) \ {x}
      /\ \A n \in Nodes : n # x => key'[n] = key[n]
  BY <1>1, <1>3, <1>5 DEF Used
<1> HIDE DEF u, o, T2, x
<1>7. /\ child' \in [Slots -> Nodes \cup {Null}] /\ Covers(child', T2) /\ OneParent(child')
      /\ T2 \in [Slots -> SUBSET Used(key')] /\ T2[Root] = Used(key')
      /\ \A t \in Slots : T2[t] \subseteq T[t] \ {x}
      /\ \A n \in Nodes \ Used(key') : child'[LeftOf(n)] = Null /\ child'[RightOf(n)] = Null
      /\ \A t \in Slots : child'[t] # Null =>
           child'[t] # x /\ \E s \in Slots : child[s] = child'[t]
  <2>1. IsWithout(x, T, child', T2)
    BY <1>1, <1>3, <1>4, WithoutNodeFacts DEF T2
  <2> QED BY <1>6, <2>1 DEF IsWithout
<1>8. Ordered(child', key', T2)
  <2> SUFFICES ASSUME NEW t \in Slots, child'[t] # Null
               PROVE  /\ \A m \in T2[LeftOf(child'[t])] : key'[m] < key'[child'[t]]
                      /\ \A m \in T2[RightOf(child'[t])] : key'[child'[t]] < key'[m]
    BY DEF Ordered
  <2>1. PICK c : c = child'[t]
    OBVIOUS
  <2>2. c # x /\ c \in Nodes /\ LeftOf(c) \in Slots /\ RightOf(c) \in Slots
    BY <1>7, <2>1, SlotFacts
  <2>3. /\ \A m \in T[LeftOf(c)] : key[m] < key[c] /\ m \in Nodes
        /\ \A m \in T[RightOf(c)] : key[c] < key[m] /\ m \in Nodes
    <3>1. PICK s \in Slots : child[s] = c
      BY <1>7, <2>1
    <3>2. c # Null
      BY <2>1
    <3> QED BY <2>2, <3>1, <3>2, KeysAreNumbers DEF IsTree, Ordered
  <2>4. key'[c] = key[c]
    BY <1>6, <2>2
  <2>5. ASSUME NEW m \in T2[LeftOf(c)] PROVE key'[m] < key'[c]
    BY <1>6, <1>7, <2>2, <2>3, <2>4
  <2>6. ASSUME NEW m \in T2[RightOf(c)] PROVE key'[c] < key'[m]
    BY <1>6, <1>7, <2>2, <2>3, <2>4
  <2> QED BY <2>1, <2>5, <2>6
<1>9. IsTree(child', key', T2)
  BY <1>6, <1>7, <1>8 DEF IsTree
<1>10. T2 \in [Slots -> SUBSET Nodes]
  BY <1>7 DEF Used
<1> QED BY <1>9, <1>10

\* bt_delete of a node with two children.
LEMMA DeleteMoveKeepsTree ==
  ASSUME NEW T, IsTree(child, key, T), NEW k \in Keys, DeleteMove(k)
  PROVE  \E T2 \in [Slots -> SUBSET Nodes] : IsTree(child', key', T2)
<1> DEFINE n == child[SlotFor(k)]
           u == Leftmost(n)
           x == child[u]
           o == RightOf(x)
           T2 == BelowWithout(T, x)
<1>1. /\ SlotFor(k) \in Slots /\ n # Null /\ n \in Used(key) /\ n \in Nodes
      /\ child[LeftOf(n)] # Null /\ child[RightOf(n)] # Null
  BY SearchFinds, ChildFacts DEF DeleteMove, Found, LeftOf, RightOf
<1>2. /\ u \in Slots /\ child[u] = x /\ x # Null /\ child[LeftOf(x)] = Null
      /\ x \in T[RightOf(n)] /\ \A y \in T[RightOf(n)] : y = x \/ key[x] < key[y]
      /\ x \in Used(key) /\ x \in Nodes
  <2>1. /\ u \in Slots /\ child[u] = x /\ x # Null /\ child[LeftOf(x)] = Null
        /\ x \in T[RightOf(n)] /\ \A y \in T[RightOf(n)] : y = x \/ key[x] < key[y]
    BY <1>1, LeftmostFinds
  <2> QED BY <2>1, ChildFacts
<1>3. /\ LeftOf(x) \in Slots /\ RightOf(x) \in Slots /\ LeftOf(x) # RightOf(x)
      /\ u # LeftOf(x) /\ u # RightOf(x)
  BY <1>2, ChildFacts, SlotFacts
<1>4. child \in [Slots -> Nodes \cup {Null}] /\ key \in [Nodes -> Keys \cup {Null}]
  BY DEF IsTree
<1>5. key' = [key EXCEPT ![n] = key[x], ![x] = Null]
  BY DEF DeleteMove
<1>6. child' = [child EXCEPT ![RightOf(x)] = Null, ![u] = child[o]]
  BY DEF DeleteMove, RightOf
<1>7. x \notin T[LeftOf(n)] /\ n # x /\ \A m \in T[LeftOf(n)] : key[m] < key[n]
  <2>1. n \notin T[RightOf(n)]
    BY <1>1, ChildFacts
  <2>2. /\ \A m \in T[LeftOf(n)] : key[m] < key[n]
        /\ \A m \in T[RightOf(n)] : key[n] < key[m]
    BY <1>1 DEF IsTree, Ordered
  <2>3. key[n] \in Int /\ key[x] \in Int
    BY <1>1, <1>2, KeysAreNumbers
  <2> HIDE DEF n, x
  <2> QED BY <1>2, <2>1, <2>2, <2>3
<1>8. o \in {LeftOf(x), RightOf(x)} /\ \A p \in {LeftOf(x), RightOf(x)} : p = o \/ child[p] = Null
  BY <1>2
<1> HIDE DEF n, u, x, T2
<1>9. child' = WithoutNode(child, u, x, child[o])
  BY <1>2, <1>3, <1>4, <1>6 DEF WithoutNode
<1>10. /\ key' \in [Nodes -> Keys \cup {Null}] /\ Used(key') = Used(key) \ {x}
       /\ key'[n] = key[x] /\ \A m \in Nodes : m \notin {n, x} => key'[m] = key[m]
  BY <1>1, <1>2, <1>4, <1>5, <1>7 DEF Used
<1>11. IsWithout(x, T, child', T2)
  <2> HIDE DEF o
  <2> QED BY <1>2, <1>8, <1>9, WithoutNodeFacts DEF T2
<1>12. Ordered(child', key', T2)
  <2> SUFFICES ASSUME NEW t \in Slots, child'[t] # Null
               PROVE  /\ \A m \in T2[LeftOf(child'[t])] : key'[m] < key'[child'[t]]
                      /\ \A m \in T2[RightOf(child'[t])] : key'[child'[t]] < key'[m]
    BY DEF Ordered
  <2>1. PICK c : c = child'[t]
    OBVIOUS
  <2>2. PICK s \in Slots : child[s] = c
    BY <1>11, <2>1 DEF IsWithout
  <2>3. c # x /\ c # Null /\ c \in Nodes /\ LeftOf(c) \in Slots /\ RightOf(c) \in Slots
    BY <1>11, <2>1, SlotFacts DEF IsWithout
  <2>4. /\ \A m \in T[LeftOf(c)] : key[m] < key[c] /\ m \in Nodes /\ key[m] \in Int
        /\ \A m \in T[RightOf(c)] : key[c] < key[m] /\ m \in Nodes /\ key[m] \in Int
        /\ key[c] \in Int
    <3>1. /\ \A m \in T[LeftOf(c)] : key[m] < key[c]
          /\ \A m \in T[RightOf(c)] : key[c] < key[m]
      BY <2>2, <2>3 DEF IsTree, Ordered
    <3>2. \A m \in Used(key) : m \in Nodes /\ key[m] \in Int
      BY KeysAreNumbers
    <3>3. T[LeftOf(c)] \subseteq Used(key) /\ T[RightOf(c)] \subseteq Used(key) /\ c \in Used(key)
      BY <2>2, <2>3, KeysAreNumbers, ChildFacts
    <3> QED BY <3>1, <3>2, <3>3
  <2>5. /\ T2[LeftOf(c)] \subseteq T[LeftOf(c)] \ {x}
        /\ T2[RightOf(c)] \subseteq T[RightOf(c)] \ {x}
    BY <1>11, <2>3 DEF IsWithout
  <2>6. CASE c = n
    <3>1. key'[c] = key[x] /\ key[x] \in Int /\ key[n] < key[x]
      BY <1>2, <1>10, <2>4, <2>6
    <3>2. n \notin T[LeftOf(n)] /\ n \notin T[RightOf(n)]
      BY <2>2, <2>3, <2>6, ChildFacts
    <3>3. ASSUME NEW m \in T2[LeftOf(c)] PROVE key'[m] < key'[c]
      <4>1. m \notin {n, x} /\ m \in Nodes /\ key[m] < key[n] /\ key[m] \in Int /\ key[n] \in Int
        BY <2>4, <2>5, <2>6, <3>2, <3>3
      <4> QED BY <1>10, <3>1, <4>1
    <3>4. ASSUME NEW m \in T2[RightOf(c)] PROVE key'[c] < key'[m]
      <4>1. m \notin {n, x} /\ m \in Nodes /\ m \in T[RightOf(n)]
        BY <2>4, <2>5, <2>6, <3>2, <3>4
      <4> QED BY <1>2, <1>10, <3>1, <4>1
    <3> QED BY <2>1, <3>3, <3>4
  <2>7. CASE c # n
    <3>1. key'[c] = key[c]
      BY <1>10, <2>3, <2>7
    <3>2. ASSUME NEW m \in T2[LeftOf(c)] PROVE key'[m] < key'[c]
      <4>1. m # x /\ m \in T[LeftOf(c)]
        BY <2>5, <3>2
      <4>2. CASE m = n
        <5>1. T[RightOf(n)] \subseteq T[LeftOf(c)]
          BY <2>3, <4>1, <4>2, BelowIsTransitive
        <5> QED BY <1>2, <1>10, <2>4, <3>1, <4>2, <5>1
      <4>3. CASE m # n
        BY <1>10, <2>4, <3>1, <4>1, <4>3
      <4> QED BY <4>2, <4>3
    <3>3. ASSUME NEW m \in T2[RightOf(c)] PROVE key'[c] < key'[m]
      <4>1. m # x /\ m \in T[RightOf(c)]
        BY <2>5, <3>3
      <4>2. CASE m = n
        <5>1. T[RightOf(n)] \subseteq T[RightOf(c)]
          BY <2>3, <4>1, <4>2, BelowIsTransitive
        <5> QED BY <1>2, <1>10, <2>4, <3>1, <4>2, <5>1
      <4>3. CASE m # n
        BY <1>10, <2>4, <3>1, <4>1, <4>3
      <4> QED BY <4>2, <4>3
    <3> QED BY <2>1, <3>2, <3>3
  <2> QED BY <2>6, <2>7
<1>13. IsTree(child', key', T2) /\ T2 \in [Slots -> SUBSET Nodes]
  BY <1>10, <1>11, <1>12 DEF IsTree, IsWithout, Used
<1> QED BY <1>13

\* A new node does not disturb those that are there.
LEMMA AddKeepsTree ==
  ASSUME NEW T, IsTree(child, key, T), NEW k \in Keys, NEW v, Add(k, v)
  PROVE  \E T2 \in [Slots -> SUBSET Nodes] : IsTree(child', key', T2)
<1> DEFINE u == SlotFor(k)
<1>1. PICK n \in Nodes \ Allocated :
        /\ child' = [child EXCEPT ![u] = n, ![LeftOf(n)] = Null, ![RightOf(n)] = Null]
        /\ key' = [key EXCEPT ![n] = k]
  BY DEF Add, LeftOf, RightOf
<1>2. PICK P \in SUBSET Slots :
        /\ Root \in P /\ u \in P
        /\ \A t \in P : t = u \/ (child[t] # Null /\ Toward(child[t], k) \in P)
        /\ \A t \in P : t = Root \/ \E w \in P : child[w] # Null /\ t = Toward(child[w], k)
  BY SearchPath
<1>3. /\ u \in Slots /\ child[u] = Null /\ \A m \in Used(key) : key[m] # k
  BY SearchFinds, TreeAssumption DEF Add, Found, Used, IsTree
<1>4. /\ child \in [Slots -> Nodes \cup {Null}] /\ key \in [Nodes -> Keys \cup {Null}]
      /\ T \in [Slots -> SUBSET Used(key)] /\ T[Root] = Used(key)
      /\ Covers(child, T) /\ OneParent(child) /\ Ordered(child, key, T)
      /\ \A m \in Nodes \ Used(key) : child[LeftOf(m)] = Null /\ child[RightOf(m)] = Null
  BY DEF IsTree
<1> HIDE DEF u
<1>5. n \in Nodes /\ n \notin Used(key) /\ n # Null
  BY TreeAssumption DEF Used, Allocated
<1>6. /\ key' \in [Nodes -> Keys \cup {Null}] /\ Used(key') = Used(key) \cup {n}
      /\ key'[n] = k /\ \A m \in Used(key) : key'[m] = key[m]
  BY <1>1, <1>4, <1>5, TreeAssumption DEF Used
\* The way down leads through nodes that are in use
<1>7. ASSUME NEW t \in P, NEW m \in Nodes, t \in {LeftOf(m), RightOf(m)}
      PROVE  m \in Used(key) /\ t = Toward(m, k) /\ \E w \in P : child[w] = m
  <2>1. t # Root
    BY <1>7, SlotFacts
  <2>2. PICK w \in P : child[w] # Null /\ t = Toward(child[w], k)
    BY <1>2, <2>1
  <2>3. child[w] \in Nodes /\ child[w] \in Used(key)
    BY <2>2, ChildFacts
  <2>4. t \in {LeftOf(child[w]), RightOf(child[w])}
    BY <2>2, <2>3, TowardFacts
  <2>5. m = child[w]
    BY <1>7, <2>3, <2>4, SlotFacts
  <2> QED BY <2>2, <2>3, <2>5
<1>8. LeftOf(n) \notin P /\ RightOf(n) \notin P /\ LeftOf(n) \in Slots /\ RightOf(n) \in Slots
  BY <1>5, <1>7, SlotFacts
<1>9. /\ child' \in [Slots -> Nodes \cup {Null}] /\ child'[u] = n
      /\ \A t \in Slots : t # u => child'[t] = child[t]
  <2>1. u # LeftOf(n) /\ u # RightOf(n)
    BY <1>2, <1>8
  <2>2. child[LeftOf(n)] = Null /\ child[RightOf(n)] = Null
    BY <1>4, <1>5
  <2> QED BY <1>1, <1>3, <1>4, <1>5, <1>8, <2>1, <2>2
<1> DEFINE T2 == [t \in Slots |-> IF t \in P THEN T[t] \cup {n} ELSE T[t]]
<1>10. \A t \in Slots : T[t] \subseteq Used(key) /\ n \notin T[t]
  BY <1>4, <1>5
<1>11. /\ \A t \in P : T2[t] = T[t] \cup {n}
       /\ \A t \in Slots : t \notin P => T2[t] = T[t]
       /\ \A t \in Slots : T2[t] \subseteq T[t] \cup {n} /\ T[t] \subseteq T2[t]
  OBVIOUS
<1>12. T2 \in [Slots -> SUBSET Used(key')] /\ T2[Root] = Used(key')
  BY <1>2, <1>4, <1>6, SlotFacts
<1> HIDE DEF T2
<1>13. \A m \in Nodes \ Used(key') : child'[LeftOf(m)] = Null /\ child'[RightOf(m)] = Null
  <2> SUFFICES ASSUME NEW m \in Nodes \ Used(key')
               PROVE  child'[LeftOf(m)] = Null /\ child'[RightOf(m)] = Null
    OBVIOUS
  <2>1. m \notin Used(key) /\ child[LeftOf(m)] = Null /\ child[RightOf(m)] = Null
    BY <1>4, <1>6
  <2>2. u # LeftOf(m) /\ u # RightOf(m)
    BY <1>2, <1>7, <2>1
  <2> QED BY <1>9, <2>1, <2>2, SlotFacts
<1>14. OneParent(child')
  <2>1. \A t \in Slots : child[t] # n
    BY <1>5, ChildFacts
  <2> QED BY <1>4, <1>9, <2>1 DEF OneParent
<1>15. T2[u] = {n} /\ T2[LeftOf(n)] = {} /\ T2[RightOf(n)] = {}
  <2>1. T[u] = {} /\ T[LeftOf(n)] = {} /\ T[RightOf(n)] = {}
    BY <1>3, <1>4, <1>5, <1>8 DEF Covers
  <2> QED BY <1>2, <1>8, <1>11, <2>1
<1>16. ASSUME NEW t \in Slots, NEW c, c = child[t], c # Null
       PROVE  /\ c \in Nodes /\ LeftOf(c) \in Slots /\ RightOf(c) \in Slots
              /\ T[t] = {c} \cup T[LeftOf(c)] \cup T[RightOf(c)]
              /\ \A p \in {LeftOf(c), RightOf(c)} : p \in P => p = Toward(c, k) /\ t \in P
              /\ t \in P => Toward(c, k) \in P
  <2>1. /\ c \in Nodes /\ LeftOf(c) \in Slots /\ RightOf(c) \in Slots
        /\ T[t] = {c} \cup T[LeftOf(c)] \cup T[RightOf(c)]
    BY <1>16, ChildFacts
  <2>2. ASSUME NEW p \in {LeftOf(c), RightOf(c)}, p \in P
        PROVE  p = Toward(c, k) /\ t \in P
    <3>1. PICK w \in P : p = Toward(c, k) /\ child[w] = c
      BY <1>7, <2>1, <2>2
    <3>2. w = t
      BY <1>4, <1>16, <3>1 DEF OneParent
    <3> QED BY <3>1, <3>2
  <2>3. t \in P => Toward(c, k) \in P
    BY <1>2, <1>3, <1>16
  <2> QED BY <2>1, <2>2, <2>3
<1>17. Covers(child', T2)
  <2> SUFFICES ASSUME NEW t \in Slots
               PROVE  T2[t] = IF child'[t] = Null THEN {}
                              ELSE {child'[t]} \cup T2[LeftOf(child'[t])] \cup T2[RightOf(child'[t])]
    BY DEF Covers
  <2>1. CASE t = u
    BY <1>5, <1>9, <1>15, <2>1
  <2>2. CASE t # u /\ child[t] = Null
    <3>1. t \notin P /\ T[t] = {} /\ child'[t] = Null
      BY <1>2, <1>4, <1>9, <2>2 DEF Covers
    <3> QED BY <1>11, <3>1
  <2>3. CASE t # u /\ child[t] # Null
    <3>1. PICK c : c = child[t] /\ c # Null /\ child'[t] = c
      BY <1>9, <2>3
    <3>2. /\ c \in Nodes /\ LeftOf(c) \in Slots /\ RightOf(c) \in Slots
          /\ T[t] = {c} \cup T[LeftOf(c)] \cup T[RightOf(c)]
          /\ \A p \in {LeftOf(c), RightOf(c)} : p \in P => p = Toward(c, k) /\ t \in P
          /\ t \in P => Toward(c, k) \in P
      BY <1>16, <3>1
    <3>3. Toward(c, k) \in {LeftOf(c), RightOf(c)}
      BY <3>2, TowardFacts
    <3>4. T2[t] = {c} \cup T2[LeftOf(c)] \cup T2[RightOf(c)]
      <4>1. CASE t \in P
        BY <1>11, <3>2, <3>3, <4>1
      <4>2. CASE t \notin P
        BY <1>11, <3>2, <4>2
      <4> QED BY <4>1, <4>2
    <3> QED BY <3>1, <3>4
  <2> QED BY <2>1, <2>2, <2>3
<1>18. Ordered(child', key', T2)
  <2> SUFFICES ASSUME NEW t \in Slots, child'[t] # Null
               PROVE  /\ \A m \in T2[LeftOf(child'[t])] : key'[m] < key'[child'[t]]
                      /\ \A m \in T2[RightOf(child'[t])] : key'[child'[t]] < key'[m]
    BY DEF Ordered
  <2>1. CASE t = u
    BY <1>9, <1>15, <2>1
  <2>2. CASE t # u
    <3>1. PICK c : c = child[t] /\ c # Null /\ child'[t] = c
      BY <1>9, <2>2
    <3>2. /\ c \in Nodes /\ LeftOf(c) \in Slots /\ RightOf(c) \in Slots
          /\ \A p \in {LeftOf(c), RightOf(c)} : p \in P => p = Toward(c, k)
      BY <1>16, <3>1
    <3>3. c \in Used(key) /\ key'[c] = key[c] /\ key[c] # k /\ key[c] \in Int /\ k \in Int
      BY <1>3, <1>6, <3>1, ChildFacts, TreeAssumption
    <3>4. /\ \A m \in T[LeftOf(c)] : key[m] < key[c]
          /\ \A m \in T[RightOf(c)] : key[c] < key[m]
      BY <1>4, <3>1 DEF Ordered
    <3>5. LeftOf(c) # RightOf(c)
      BY <3>2, SlotFacts
    <3>6. LeftOf(c) \in P => k < key[c]
      BY <3>2, <3>5, TowardFacts
    <3>7. RightOf(c) \in P => key[c] < k
      <4>1. RightOf(c) \in P => ~(k < key[c])
        BY <3>2, <3>5, TowardFacts
      <4> QED BY <3>3, <4>1
    <3>8. ASSUME NEW m \in T2[LeftOf(c)] PROVE key'[m] < key'[c]
      <4>1. CASE m = n
        <5>1. LeftOf(c) \in P
          BY <1>10, <1>11, <3>2, <3>8, <4>1
        <5> QED BY <1>6, <3>3, <3>6, <4>1, <5>1
      <4>2. CASE m # n
        <5>1. m \in T[LeftOf(c)] /\ m \in Used(key)
          BY <1>10, <1>11, <3>2, <3>8, <4>2
        <5> QED BY <1>6, <3>3, <3>4, <5>1
      <4> QED BY <4>1, <4>2
    <3>9. ASSUME NEW m \in T2[RightOf(c)] PROVE key'[c] < key'[m]
      <4>1. CASE m = n
        <5>1. RightOf(c) \in P
          BY <1>10, <1>11, <3>2, <3>9, <4>1
        <5> QED BY <1>6, <3>3, <3>7, <4>1, <5>1
      <4>2. CASE m # n
        <5>1. m \in T[RightOf(c)] /\ m \in Used(key)
          BY <1>10, <1>11, <3>2, <3>9, <4>2
        <5> QED BY <1>6, <3>3, <3>4, <5>1
      <4> QED BY <4>1, <4>2
    <3> QED BY <3>1, <3>8, <3>9
  <2> QED BY <2>1, <2>2
<1>19. IsTree(child', key', T2)
  BY <1>6, <1>9, <1>12, <1>13, <1>14, <1>17, <1>18 DEF IsTree
<1>20. T2 \in [Slots -> SUBSET Nodes]
  BY <1>12 DEF Used
<1> QED BY <1>19, <1>20

\* The tree without nodes.
LEMMA EmptyIsTree ==
  ASSUME NEW ch, ch = [s \in Slots |-> Null], NEW ky, ky = [n \in Nodes |-> Null]
  PROVE  \E T \in [Slots -> SUBSET Nodes] : IsTree(ch, ky, T)
<1> DEFINE T == [s \in Slots |-> {}]
<1>1. Used(ky) = {} /\ T \in [Slots -> SUBSET Nodes] /\ T \in [Slots -> SUBSET Used(ky)]
  BY DEF Used
<1>2. /\ Covers(ch, T) /\ Ordered(ch, ky, T) /\ OneParent(ch)
      /\ ch \in [Slots -> Nodes \cup {Null}] /\ ky \in [Nodes -> Keys \cup {Null}]
      /\ \A n \in Nodes : ch[LeftOf(n)] = Null /\ ch[RightOf(n)] = Null
  BY SlotFacts DEF Covers, Ordered, OneParent
<1>3. T[Root] = Used(ky)
  BY <1>1, SlotFacts
<1> HIDE DEF T
<1>4. IsTree(ch, ky, T)
  BY <1>1, <1>2, <1>3 DEF IsTree
<1> QED BY <1>1, <1>4

LEMMA InitIsTree == Init => TreeInv
BY EmptyIsTree DEF Init, TreeInv

LEMMA NextKeepsTree == TreeInv /\ [Next]_vars => TreeInv'
<1> SUFFICES ASSUME TreeInv, [Next]_vars PROVE TreeInv'
  OBVIOUS
<1>1. PICK T : IsTree(child, key, T)
  BY DEF TreeInv
<1>2. value \in [Nodes -> Values \cup {Null}]
  BY DEF TreeInv
<1>3. ASSUME UNCHANGED <<child, key, value>> PROVE TreeInv'
  BY <1>3 DEF TreeInv
<1>4. ASSUME NEW k \in Keys, NEW v \in Values, Add(k, v) PROVE TreeInv'
  <2>1. value' \in [Nodes -> Values \cup {Null}]
    BY <1>2, <1>4 DEF Add
  <2> QED BY <1>1, <1>4, <2>1, AddKeepsTree DEF TreeInv
<1>5. ASSUME NEW k \in Keys, DeleteLink(k) PROVE TreeInv'
  <2>1. value' \in [Nodes -> Values \cup {Null}]
    BY <1>2, <1>5 DEF DeleteLink, Free
  <2> QED BY <1>1, <1>5, <2>1, DeleteLinkKeepsTree DEF TreeInv
<1>6. ASSUME NEW k \in Keys, DeleteMove(k) PROVE TreeInv'
  <2>1. value' \in [Nodes -> Values \cup {Null}]
    <3>1. child[Leftmost(child[SlotFor(k)])] \in Nodes
      <4>1. child[SlotFor(k)] \in Nodes /\ child[RightOf(child[SlotFor(k)])] # Null
        BY <1>1, <1>6, SearchFinds, ChildFacts DEF DeleteMove, Found, RightOf
      <4> QED BY <1>1, <4>1, LeftmostFinds, ChildFacts
    <3> QED BY <1>2, <1>6, <3>1 DEF DeleteMove
  <2> QED BY <1>1, <1>6, <2>1, DeleteMoveKeepsTree DEF TreeInv
<1>7. ASSUME FreeAll PROVE TreeInv'
  <2>1. key \in [Nodes -> Keys \cup {Null}] /\ Below = Used(key)
    BY <1>1, BelowIsAll DEF IsTree
  <2>2. key' = [n \in Nodes |-> Null] /\ child' = [s \in Slots |-> Null]
    BY <1>7, <2>1 DEF FreeAll, Used
  <2>3. value' \in [Nodes -> Values \cup {Null}]
    BY <1>2, <1>7 DEF FreeAll
  <2> QED BY <2>2, <2>3, EmptyIsTree DEF TreeInv
<1>8. CASE Next
  BY <1>3, <1>4, <1>5, <1>6, <1>7, <1>8 DEF Next, Lookup, DeleteMisses, AddDuplicate
<1>9. CASE UNCHANGED vars
  BY <1>3, <1>9 DEF vars
<1> QED BY <1>8, <1>9

\* The map that the tree stands for.
MapOf(ky, vl) ==
  [k \in {ky[n] : n \in Used(ky)} |-> vl[CHOOSE n \in Used(ky) : ky[n] = k]]

KeysOnce(ky) == \A n, m \in Used(ky) : ky[n] = ky[m] => n = m

MapsEach(map, ky, vl) ==
  /\ DOMAIN map = {ky[n] : n \in Used(ky)}
  /\ \A n \in Used(ky) : ky[n] \in DOMAIN map /\ map[ky[n]] = vl[n]

LEMMA MapOfFacts ==
  ASSUME NEW ky, NEW vl, KeysOnce(ky)
  PROVE  MapsEach(MapOf(ky, vl), ky, vl)
<1>1. ASSUME NEW n \in Used(ky)
      PROVE  (CHOOSE m \in Used(ky) : ky[m] = ky[n]) = n
  BY DEF KeysOnce
<1> QED BY <1>1 DEF MapOf, MapsEach

\* Two maps with the same keys and values.
IsMapping(g, D, ky, vl) ==
  D = {ky[n] : n \in Used(ky)} /\ \A n \in Used(ky) : g[ky[n]] = vl[n]

LEMMA SameMap ==
  ASSUME NEW ky, NEW vl, KeysOnce(ky), NEW D, NEW g,
         IsMapping(g, D, ky, vl)
  PROVE  MapOf(ky, vl) = [k \in D |-> g[k]]
<1>0. MapsEach(MapOf(ky, vl), ky, vl)
  BY MapOfFacts
<1>1. \A k \in D : MapOf(ky, vl)[k] = g[k]
  BY <1>0 DEF MapsEach, IsMapping
<1>2. D = DOMAIN MapOf(ky, vl)
  BY <1>0 DEF MapsEach, IsMapping
<1>3. MapOf(ky, vl) = [k \in DOMAIN MapOf(ky, vl) |-> MapOf(ky, vl)[k]]
  BY DEF MapOf
<1> QED BY <1>1, <1>2, <1>3

\* What the tree says of the map.
TreeIsMap ==
  /\ KeysOnce(key)
  /\ \A k : Found(k) <=> k \in DOMAIN MapOf(key, value)
  /\ \A k : Found(k) => /\ child[SlotFor(k)] \in Used(key) /\ key[child[SlotFor(k)]] = k
                        /\ value[child[SlotFor(k)]] = MapOf(key, value)[k]

LEMMA TreeInvIsMap == TreeInv => TreeIsMap
<1> SUFFICES ASSUME TreeInv PROVE TreeIsMap
  OBVIOUS
<1>1. PICK T : IsTree(child, key, T)
  BY DEF TreeInv
<1>2. KeysOnce(key)
  BY <1>1, KeysDiffer DEF KeysOnce
<1>3. ASSUME NEW k, Found(k)
      PROVE  child[SlotFor(k)] \in Used(key) /\ key[child[SlotFor(k)]] = k
  BY <1>1, <1>3, SearchFinds DEF Found
<1>4. MapsEach(MapOf(key, value), key, value)
  BY <1>2, MapOfFacts
<1>5. \A k : Found(k) => /\ k \in DOMAIN MapOf(key, value)
                         /\ value[child[SlotFor(k)]] = MapOf(key, value)[k]
  BY <1>3, <1>4 DEF MapsEach
<1>6. ASSUME NEW k, k \in DOMAIN MapOf(key, value) PROVE Found(k)
  <2>1. PICK n \in Used(key) : key[n] = k
    BY <1>4, <1>6 DEF MapsEach
  <2>2. child[SlotFor(k)] = n /\ n # Null
    BY <1>1, <2>1, SearchFinds, TreeAssumption DEF Used
  <2> QED BY <2>2 DEF Found
<1> QED BY <1>2, <1>3, <1>5, <1>6 DEF TreeIsMap

LEMMA InitIsMap == Init => Map!MInit
<1> SUFFICES ASSUME Init PROVE Map!MInit
  OBVIOUS
<1>1. Allocated = {}
  BY DEF Init, Allocated
<1>2. {key[n] : n \in Allocated} = {}
  BY <1>1
<1>3. MapOfTree = <<>>
  <2>1. MapOfTree = [k \in {} |-> value[CHOOSE n \in Allocated : key[n] = k]]
    BY <1>2 DEF MapOfTree
  <2>2. [k \in {} |-> value[CHOOSE n \in Allocated : key[n] = k]] = <<>>
    OBVIOUS
  <2> QED BY <2>1, <2>2
<1> QED BY <1>3 DEF Init, Map!MInit

\* A map with another key, and one without.
WithKey(M, k, v) == [j \in DOMAIN M \cup {k} |-> IF j = k THEN v ELSE M[j]]
WithoutKey(M, k) == [j \in DOMAIN M \ {k} |-> M[j]]

\* What a new key does to the map.
LEMMA MapGrows ==
  ASSUME NEW ky, NEW vl, NEW ky2, NEW vl2, KeysOnce(ky), KeysOnce(ky2), NEW k, NEW v, NEW n,
         n \notin Used(ky), Used(ky2) = Used(ky) \cup {n}, ky2[n] = k, vl2[n] = v,
         \A m \in Used(ky) : ky2[m] = ky[m] /\ vl2[m] = vl[m],
         k \notin DOMAIN MapOf(ky, vl)
  PROVE  MapOf(ky2, vl2) = WithKey(MapOf(ky, vl), k, v)
<1> DEFINE D == DOMAIN MapOf(ky, vl) \cup {k}
           g == [j \in D |-> IF j = k THEN v ELSE MapOf(ky, vl)[j]]
<1>1. MapsEach(MapOf(ky, vl), ky, vl)
  BY MapOfFacts
<1>2. D = {ky2[m] : m \in Used(ky2)}
  BY <1>1 DEF MapsEach
<1>3. \A m \in Used(ky2) : g[ky2[m]] = vl2[m]
  BY <1>1 DEF MapsEach
<1>4. MapOf(ky2, vl2) = [j \in D |-> g[j]]
  <2> HIDE DEF D, g
  <2>1. IsMapping(g, D, ky2, vl2)
    BY <1>2, <1>3 DEF IsMapping
  <2> QED BY <2>1, SameMap
<1> QED BY <1>4 DEF WithKey

\* What a lost key does: the other keys may move.
IsShrunk(ky, vl, ky2, vl2, k) ==
  /\ \A m \in Used(ky2) : \E p \in Used(ky) : ky2[m] = ky[p] /\ vl2[m] = vl[p] /\ ky[p] # k
  /\ \A p \in Used(ky) : ky[p] # k => \E m \in Used(ky2) : ky2[m] = ky[p]

LEMMA MapShrinks ==
  ASSUME NEW ky, NEW vl, NEW ky2, NEW vl2, KeysOnce(ky), KeysOnce(ky2), NEW k,
         IsShrunk(ky, vl, ky2, vl2, k)
  PROVE  MapOf(ky2, vl2) = WithoutKey(MapOf(ky, vl), k)
<1> DEFINE g == MapOf(ky, vl)
           D == DOMAIN g \ {k}
<1>1. MapsEach(g, ky, vl)
  BY MapOfFacts
<1> HIDE DEF g
<1>2. D = {ky2[m] : m \in Used(ky2)}
  BY <1>1 DEF MapsEach, IsShrunk
<1>3. \A m \in Used(ky2) : g[ky2[m]] = vl2[m]
  BY <1>1 DEF MapsEach, IsShrunk
<1>4. MapOf(ky2, vl2) = [j \in D |-> g[j]]
  <2> HIDE DEF D
  <2>1. IsMapping(g, D, ky2, vl2)
    BY <1>2, <1>3 DEF IsMapping
  <2> QED BY <2>1, SameMap
<1> QED BY <1>4 DEF g, WithoutKey

LEMMA NoKeysNoMap ==
  ASSUME NEW ky, NEW vl, Used(ky) = {}
  PROVE  MapOf(ky, vl) = <<>>
<1>1. {ky[n] : n \in Used(ky)} = {}
  OBVIOUS
<1>2. MapOf(ky, vl) = [k \in {} |-> vl[CHOOSE n \in Used(ky) : ky[n] = k]]
  BY <1>1 DEF MapOf
<1>3. [k \in {} |-> vl[CHOOSE n \in Used(ky) : ky[n] = k]] = <<>>
  OBVIOUS
<1> QED BY <1>2, <1>3

\* The calls of KeyValueMap, from map M to map M2.
MNextAdd(k, v, M, M2) ==
  \/ /\ k \in DOMAIN M /\ M2 = M
     /\ last' = [op |-> "add", key |-> k, value |-> v, result |-> -1]
  \/ /\ k \notin DOMAIN M /\ M2 = WithKey(M, k, v)
     /\ last' = [op |-> "add", key |-> k, value |-> v, result |-> 0]

MNextLookup(k, M, M2) ==
  /\ M2 = M
  /\ \/ /\ k \in DOMAIN M
        /\ last' = [op |-> "lookup", key |-> k, result |-> 0, value |-> M[k]]
     \/ k \notin DOMAIN M /\ last' = [op |-> "lookup", key |-> k, result |-> -1]
     \/ k \notin DOMAIN M /\ DOMAIN M # {} /\ last' = [op |-> "crash"]

MNextDelete(k, M, M2) ==
  \/ /\ k \notin DOMAIN M /\ M2 = M
     /\ last' = [op |-> "delete", key |-> k, result |-> -1]
  \/ /\ k \in DOMAIN M /\ M2 = WithoutKey(M, k)
     /\ last' = [op |-> "delete", key |-> k, result |-> 0]

LEMMA EachCallIsOnMap == TreeInv /\ TreeInv' /\ [Next]_vars => [Map!MNext]_<<MapOfTree, last>>
<1> SUFFICES ASSUME TreeInv, TreeInv', [Next]_vars
             PROVE  [Map!MNext]_<<MapOfTree, last>>
  OBVIOUS
<1>1. PICK T : IsTree(child, key, T)
  BY DEF TreeInv
<1>2. /\ TreeIsMap /\ KeysOnce(key) /\ key \in [Nodes -> Keys \cup {Null}]
      /\ value \in [Nodes -> Values \cup {Null}] /\ Allocated = Used(key)
  BY <1>1, TreeInvIsMap DEF TreeIsMap, TreeInv, IsTree, Allocated, Used
<1>3. KeysOnce(key')
  <2>1. TreeIsMap'
    BY TreeInvIsMap, PTL
  <2> QED BY <2>1 DEF TreeIsMap, KeysOnce, Used
<1>4. PICK M : M = MapOf(key, value)
  OBVIOUS
<1>5. PICK M2 : M2 = MapOf(key, value)'
  OBVIOUS
<1>6. M2 = MapOf(key', value')
  BY <1>5 DEF MapOf, Used
<1>7. MapOfTree = M /\ MapOfTree' = M2
  BY <1>4, <1>6 DEF MapOfTree, MapOf, Allocated, Used
<1>8. /\ \A k : Found(k) <=> k \in DOMAIN M
      /\ \A k : Found(k) => /\ child[SlotFor(k)] \in Used(key) /\ key[child[SlotFor(k)]] = k
                            /\ value[child[SlotFor(k)]] = M[k]
  BY <1>2, <1>4 DEF TreeIsMap
<1>9. UNCHANGED <<key, value>> => M2 = M
  BY <1>4, <1>6
<1>10. /\ \A k, v : MNextAdd(k, v, M, M2) => Map!MAdd(k, v)
       /\ \A k : MNextLookup(k, M, M2) => Map!MLookup(k)
       /\ \A k : MNextDelete(k, M, M2) => Map!MDelete(k)
       /\ M2 = <<>> /\ last' = [op |-> "free"] => Map!MFree
  BY <1>7 DEF MNextAdd, MNextLookup, MNextDelete, WithKey, WithoutKey,
              Map!MAdd, Map!MLookup, Map!MDelete, Map!MFree, Map!Has
<1> SUFFICES ASSUME Next PROVE Map!MNext
  BY <1>7, <1>9 DEF vars
<1>11. ASSUME NEW k \in Keys, Lookup(k) PROVE Map!MNext
  <2>1. MNextLookup(k, M, M2)
    <3>1. child[Root] # Null => DOMAIN M # {}
      <4>1. child[Root] # Null => child[Root] \in Used(key)
        BY <1>1, ChildFacts, SlotFacts
      <4>2. \A n \in Used(key) : key[n] \in DOMAIN M
        BY <1>2, <1>4, MapOfFacts DEF MapsEach
      <4> QED BY <4>1, <4>2
    <3>2. child[Root] = Null => ~Found(k)
      <4>1. child[Root] = Null => Used(key) = {}
        BY <1>1, SlotFacts DEF IsTree, Covers
      <4> QED BY <1>8, <4>1
    <3>3. M2 = M
      BY <1>9, <1>11 DEF Lookup
    <3> QED BY <1>8, <1>11, <3>1, <3>2, <3>3 DEF Lookup, MNextLookup
  <2> QED BY <1>10, <2>1 DEF Map!MNext
<1>12. ASSUME NEW k \in Keys, DeleteMisses(k) PROVE Map!MNext
  <2>1. MNextDelete(k, M, M2)
    BY <1>8, <1>9, <1>12 DEF DeleteMisses, MNextDelete
  <2> QED BY <1>10, <2>1 DEF Map!MNext
<1>13. ASSUME NEW k \in Keys, NEW v \in Values, AddDuplicate(k, v) PROVE Map!MNext
  <2>1. MNextAdd(k, v, M, M2)
    BY <1>8, <1>9, <1>13 DEF AddDuplicate, MNextAdd
  <2> QED BY <1>10, <2>1 DEF Map!MNext
<1>14. ASSUME NEW k \in Keys, NEW v \in Values, Add(k, v) PROVE Map!MNext
  <2>1. PICK n \in Nodes \ Allocated : key' = [key EXCEPT ![n] = k] /\ value' = [value EXCEPT ![n] = v]
    BY <1>14 DEF Add
  <2>2. /\ n \notin Used(key) /\ Used(key') = Used(key) \cup {n} /\ key'[n] = k /\ value'[n] = v
        /\ \A m \in Used(key) : key'[m] = key[m] /\ value'[m] = value[m]
    BY <1>2, <2>1, TreeAssumption DEF Used
  <2>3. k \notin DOMAIN M
    BY <1>8, <1>14 DEF Add
  <2>4. M2 = WithKey(M, k, v)
    BY <1>2, <1>3, <1>4, <1>6, <2>2, <2>3, MapGrows
  <2>5. MNextAdd(k, v, M, M2)
    BY <1>14, <2>3, <2>4 DEF Add, MNextAdd
  <2> QED BY <1>10, <2>5 DEF Map!MNext
<1>15. ASSUME NEW k \in Keys, DeleteLink(k) PROVE Map!MNext
  <2> DEFINE x == child[SlotFor(k)]
  <2>1. x \in Used(key) /\ key[x] = k /\ k \in DOMAIN M
    BY <1>8, <1>15 DEF DeleteLink
  <2>2. key' = [key EXCEPT ![x] = Null] /\ value' = [value EXCEPT ![x] = Null]
    BY <1>15 DEF DeleteLink, Free
  <2> HIDE DEF x
  <2>3. /\ Used(key') = Used(key) \ {x}
        /\ \A m \in Used(key) : m # x => key'[m] = key[m] /\ value'[m] = value[m] /\ key[m] # k
    BY <1>2, <2>1, <2>2 DEF Used, KeysOnce
  <2>4. IsShrunk(key, value, key', value', k)
    BY <2>1, <2>3 DEF IsShrunk
  <2>5. M2 = WithoutKey(M, k)
    BY <1>2, <1>3, <1>4, <1>6, <2>4, MapShrinks
  <2>6. MNextDelete(k, M, M2)
    BY <1>15, <2>1, <2>5 DEF DeleteLink, MNextDelete
  <2> QED BY <1>10, <2>6 DEF Map!MNext
<1>16. ASSUME NEW k \in Keys, DeleteMove(k) PROVE Map!MNext
  <2> DEFINE n == child[SlotFor(k)]
             x == child[Leftmost(n)]
  <2>1. n \in Used(key) /\ key[n] = k /\ k \in DOMAIN M
    BY <1>8, <1>16 DEF DeleteMove
  <2>2. /\ key' = [key EXCEPT ![n] = key[x], ![x] = Null]
        /\ value' = [value EXCEPT ![n] = value[x], ![x] = Null]
    BY <1>16 DEF DeleteMove
  <2>3. x \in Used(key) /\ x # n
    <3>1. n \in Nodes /\ n # Null /\ child[RightOf(n)] # Null /\ SlotFor(k) \in Slots
      BY <1>1, <1>16, <2>1, KeysAreNumbers, SearchFinds DEF DeleteMove, Found, RightOf
    <3>2. Leftmost(n) \in Slots /\ x # Null /\ x \in T[RightOf(n)]
      BY <1>1, <3>1, LeftmostFinds
    <3>3. n \notin T[RightOf(n)]
      BY <1>1, <3>1, ChildFacts
    <3> QED BY <1>1, <3>2, <3>3, ChildFacts
  <2> HIDE DEF n, x
  <2>4. /\ Used(key') = Used(key) \ {x}
        /\ key'[n] = key[x] /\ value'[n] = value[x]
        /\ \A m \in Used(key) : m \notin {n, x} => key'[m] = key[m] /\ value'[m] = value[m]
        /\ \A m \in Used(key) : m # n => key[m] # k
    BY <1>2, <2>1, <2>2, <2>3 DEF Used, KeysOnce
  <2>5. IsShrunk(key, value, key', value', k)
    BY <2>1, <2>3, <2>4 DEF IsShrunk
  <2>6. M2 = WithoutKey(M, k)
    BY <1>2, <1>3, <1>4, <1>6, <2>5, MapShrinks
  <2>7. MNextDelete(k, M, M2)
    BY <1>16, <2>1, <2>6 DEF DeleteMove, MNextDelete
  <2> QED BY <1>10, <2>7 DEF Map!MNext
<1>17. ASSUME FreeAll PROVE Map!MNext
  <2>1. Below = Used(key)
    BY <1>1, BelowIsAll
  <2>2. Used(key') = {}
    BY <1>17, <2>1 DEF FreeAll, Used
  <2>3. M2 = <<>>
    BY <1>6, <2>2, NoKeysNoMap
  <2> QED BY <1>10, <1>17, <2>3 DEF Map!MNext, FreeAll
<1> QED BY <1>11, <1>12, <1>13, <1>14, <1>15, <1>16, <1>17 DEF Next

-----------------------------------------------------------------------------
(***************************************************************************)
(* Proofs about lib/read_line_buf.c, for any stream and any MAX_MSG_LEN.   *)
(***************************************************************************)

Lines ==
  INSTANCE LineBuffer WITH
    Bytes <- StreamBytes,
    NewlineAt <- x1, taken <- x2, buf <- x3, next_char <- x4, lines <- x5

lb_NewlineAt == x1
lb_taken == x2
lb_buf == x3
lb_next_char == x4
lb_lines == x5

USE DEF lb_NewlineAt, lb_taken, lb_buf, lb_next_char, lb_lines

\* How FlattenSeq comes to its result.
FlattensTo(qs, s) ==
  /\ s[1] = qs[1] /\ Lines!FlattenSeq(qs) = s[Len(qs)]
  /\ \A i \in 2..Len(qs) : s[i] = s[i - 1] \o qs[i]

\* FlattenSeq joins one sequence after the other.
LEMMA FlattenUnfolds ==
  ASSUME NEW S, NEW qs \in Seq(Seq(S)), qs # <<>>
  PROVE  \E s \in [1..Len(qs) -> Seq(S)] : FlattensTo(qs, s)
<1> DEFINE n == Len(qs)
           P(g) == g = [i \in 1..n |-> IF i = 1 THEN qs[i] ELSE g[i - 1] \o qs[i]]
           m == n - 1
           join == [i \in 1..m |-> [v \in Seq(S) |-> v \o qs[i + 1]]]
<1>0. n \in Nat /\ n >= 1 /\ m \in Nat /\ n = m + 1 /\ \A i \in 1..n : qs[i] \in Seq(S)
  BY LenProperties, ElementOfSeq, EmptySeq
<1>1. join \in [1..m -> [Seq(S) -> Seq(S)]]
  <2>1. \A i \in 1..m : i + 1 \in 1..n
    BY <1>0
  <2>2. \A v \in Seq(S), i \in 1..m : v \o qs[i + 1] \in Seq(S)
    BY <1>0, <2>1, ConcatProperties
  <2> HIDE DEF m
  <2> QED BY <2>2
<1>2. PICK r \in [0..m -> Seq(S)] : IsRecursion(r, m, qs[1], join)
  <2>1. qs[1] \in Seq(S)
    BY <1>0
  <2> HIDE DEF join, m
  <2> QED BY <1>0, <1>1, <2>1, RecursionUpTo
<1> DEFINE s == [i \in 1..n |-> r[i - 1]]
<1>3. s \in [1..n -> Seq(S)]
  <2>1. \A i \in 1..n : i - 1 \in 0..m
    BY <1>0
  <2> HIDE DEF n, m
  <2> QED BY <2>1
<1>4. s[1] = qs[1] /\ \A i \in 2..n : s[i] = s[i - 1] \o qs[i]
  <2>1. s[1] = qs[1]
    BY <1>0, <1>2 DEF IsRecursion
  <2>2. ASSUME NEW i \in 2..n PROVE s[i] = s[i - 1] \o qs[i]
    <3>1. i - 1 \in 1..m /\ i \in 1..n /\ i - 1 \in 1..n /\ (i - 1) - 1 \in 0..m /\ (i - 1) + 1 = i
      BY <1>0
    <3>2. r[i - 1] = join[i - 1][r[(i - 1) - 1]] /\ r[(i - 1) - 1] \in Seq(S)
      <4> HIDE DEF m, join
      <4> QED BY <1>2, <3>1 DEF IsRecursion
    <3>3. r[i - 1] = r[(i - 1) - 1] \o qs[i]
      BY <3>1, <3>2
    <3> HIDE DEF n, m
    <3> QED BY <3>1, <3>3
  <2> QED BY <2>1, <2>2
<1>5. P(s)
  <2>1. \A i \in 1..n : s[i] = IF i = 1 THEN qs[i] ELSE s[i - 1] \o qs[i]
    <3> SUFFICES ASSUME NEW i \in 1..n
                 PROVE  s[i] = IF i = 1 THEN qs[i] ELSE s[i - 1] \o qs[i]
      OBVIOUS
    <3>1. i = 1 \/ (i # 1 /\ i \in 2..n)
      BY <1>0
    <3> HIDE DEF n, s
    <3> QED BY <1>4, <3>1
  <2>2. s = [i \in 1..n |-> s[i]]
    OBVIOUS
  <2> HIDE DEF s
  <2> QED BY <2>1, <2>2
<1> HIDE DEF s
<1> DEFINE c == CHOOSE g : P(g)
<1>6. P(c)
  <2> HIDE DEF P
  <2> QED BY <1>5
<1>7. Lines!FlattenSeq(qs) = c[n]
  BY <1>0 DEF Lines!FlattenSeq
<1>8. \A i \in 1..n : c[i] = IF i = 1 THEN qs[i] ELSE c[i - 1] \o qs[i]
  BY <1>6
<1> HIDE DEF c
<1>9. c[n] = s[n]
  <2> DEFINE T == {i \in 0..m : c[i + 1] = s[i + 1]}
  <2>1. 0 \in T
    BY <1>0, <1>4, <1>8
  <2>2. \A i \in 0..(m - 1) : i \in T => i + 1 \in T
    <3> SUFFICES ASSUME NEW i \in 0..(m - 1), i \in T PROVE i + 1 \in T
      OBVIOUS
    <3>1. /\ i + 1 \in 0..m /\ (i + 1) + 1 \in 2..n /\ (i + 1) + 1 \in 1..n
          /\ (i + 1) + 1 # 1 /\ ((i + 1) + 1) - 1 = i + 1
      BY <1>0
    <3>2. c[(i + 1) + 1] = c[i + 1] \o qs[(i + 1) + 1]
      <4> HIDE DEF n, m, T
      <4> QED BY <3>1, <1>8
    <3>3. s[(i + 1) + 1] = s[i + 1] \o qs[(i + 1) + 1]
      <4> HIDE DEF n, m, T
      <4> QED BY <3>1, <1>4
    <3> HIDE DEF n, m
    <3> QED BY <3>1, <3>2, <3>3
  <2>3. 0..m \subseteq T
    <3> HIDE DEF T, m
    <3> QED BY <1>0, <2>1, <2>2, InductionUpTo
  <2>4. m \in 0..m /\ m + 1 = n
    BY <1>0
  <2> HIDE DEF m, n
  <2> QED BY <2>3, <2>4
<1> QED BY <1>3, <1>4, <1>7, <1>9 DEF FlattensTo

\* One sequence more.
LEMMA FlattenOfMore ==
  ASSUME NEW S, NEW qs \in Seq(Seq(S)), NEW q \in Seq(S)
  PROVE  /\ Lines!FlattenSeq(qs) \in Seq(S)
         /\ Lines!FlattenSeq(Append(qs, q)) = Lines!FlattenSeq(qs) \o q
<1> DEFINE rs == Append(qs, q)
<1>1. /\ rs \in Seq(Seq(S)) /\ Len(rs) = Len(qs) + 1 /\ Len(qs) \in Nat /\ rs[Len(qs) + 1] = q
      /\ rs # <<>> /\ \A i \in 1..Len(qs) : rs[i] = qs[i]
  BY AppendProperties, LenProperties
<1> HIDE DEF rs
<1>2. PICK t \in [1..Len(rs) -> Seq(S)] : FlattensTo(rs, t)
  BY <1>1, FlattenUnfolds
<1>3. CASE qs = <<>>
  <2>1. Lines!FlattenSeq(qs) = <<>> /\ Len(qs) = 0
    BY <1>3 DEF Lines!FlattenSeq
  <2>2. Lines!FlattenSeq(rs) = q
    BY <1>1, <1>2, <2>1 DEF FlattensTo
  <2> QED BY <2>1, <2>2, ConcatEmptySeq DEF rs
<1>4. CASE qs # <<>>
  <2>1. PICK s \in [1..Len(qs) -> Seq(S)] : FlattensTo(qs, s)
    BY <1>4, FlattenUnfolds
  <2>2. Len(qs) >= 1
    BY <1>1, <1>4, EmptySeq
  <2> DEFINE n == Len(qs) - 1
             T == {i \in 0..n : t[i + 1] = s[i + 1]}
  <2>3. 0 \in T /\ n \in Nat
    BY <1>1, <1>2, <2>1, <2>2 DEF FlattensTo
  <2>4. \A i \in 0..(n - 1) : i \in T => i + 1 \in T
    <3> SUFFICES ASSUME NEW i \in 0..(n - 1), i \in T PROVE i + 1 \in T
      OBVIOUS
    <3>1. /\ i + 1 \in 0..n /\ (i + 1) + 1 \in 2..Len(qs) /\ (i + 1) + 1 \in 2..Len(rs)
          /\ ((i + 1) + 1) - 1 = i + 1 /\ (i + 1) + 1 \in 1..Len(qs)
      BY <1>1, <2>2
    <3>2. t[(i + 1) + 1] = t[i + 1] \o rs[(i + 1) + 1]
      BY <1>2, <3>1 DEF FlattensTo
    <3>3. s[(i + 1) + 1] = s[i + 1] \o qs[(i + 1) + 1]
      BY <2>1, <3>1 DEF FlattensTo
    <3>4. rs[(i + 1) + 1] = qs[(i + 1) + 1] /\ t[i + 1] = s[i + 1]
      BY <1>1, <3>1
    <3> QED BY <3>1, <3>2, <3>3, <3>4
  <2>5. 0..n \subseteq T
    <3> HIDE DEF T, n
    <3> QED BY <2>3, <2>4, InductionUpTo
  <2>6. t[Len(qs)] = s[Len(qs)]
    <3>1. n \in 0..n /\ n + 1 = Len(qs)
      BY <2>2, <1>1
    <3>2. n \in T
      <4> HIDE DEF n, T
      <4> QED BY <2>5, <3>1
    <3> QED BY <3>1, <3>2
  <2>7. Len(rs) \in 2..Len(rs) /\ Len(rs) - 1 = Len(qs) /\ Len(qs) \in 1..Len(qs)
    BY <1>1, <2>2
  <2>8. t[Len(rs)] = t[Len(qs)] \o q
    BY <1>1, <1>2, <2>7 DEF FlattensTo
  <2> QED BY <1>2, <2>1, <2>6, <2>7, <2>8 DEF FlattensTo, rs
<1> QED BY <1>3, <1>4


\* What a piece is made of.
LEMMA PieceFacts ==
  ASSUME NEW n \in Nat, NEW m \in Nat, n <= m
  PROVE  /\ Lines!Piece(n, m) \in Seq(Nat) /\ Len(Lines!Piece(n, m)) = m - n
         /\ m <= StreamBytes => Lines!Piece(n, m) \in Seq(Lines!Byte)
         /\ \A i \in 1..m - n : Lines!Piece(n, m)[i] = n + i
<1>1. m - n \in Nat /\ \A i \in 1..m - n : n + i \in 1..m /\ n + i \in Nat
  OBVIOUS
<1>2. Lines!Piece(n, m) \in [1..m - n -> Nat]
  BY <1>1 DEF Lines!Piece
<1>3. ASSUME m <= StreamBytes PROVE Lines!Piece(n, m) \in [1..m - n -> Lines!Byte]
  <2>1. \A i \in 1..m - n : n + i \in Lines!Byte
    BY <1>1, <1>3, LibraryAssumption DEF Lines!Byte
  <2> QED BY <2>1 DEF Lines!Piece
<1>4. \A S : Lines!Piece(n, m) \in [1..m - n -> S] => Lines!Piece(n, m) \in Seq(S) /\ Len(Lines!Piece(n, m)) = m - n
  BY <1>1, SeqDef, LenProperties
<1> QED BY <1>2, <1>3, <1>4 DEF Lines!Piece

\* One piece after the other.
LEMMA PiecesJoin ==
  ASSUME NEW k \in Nat, NEW n \in Nat, NEW m \in Nat, k <= n, n <= m
  PROVE  Lines!Piece(k, n) \o Lines!Piece(n, m) = Lines!Piece(k, m)
<1> DEFINE a == Lines!Piece(k, n)  b == Lines!Piece(n, m)  c == Lines!Piece(k, m)
<1>1. /\ a \in Seq(Nat) /\ Len(a) = n - k /\ \A i \in 1..n - k : a[i] = k + i
      /\ b \in Seq(Nat) /\ Len(b) = m - n /\ \A i \in 1..m - n : b[i] = n + i
      /\ c \in Seq(Nat) /\ Len(c) = m - k /\ \A i \in 1..m - k : c[i] = k + i
  <2>1. k <= m
    OBVIOUS
  <2> QED BY <2>1, PieceFacts
<1> HIDE DEF a, b, c
<1>2. /\ a \o b \in Seq(Nat) /\ Len(a \o b) = (n - k) + (m - n)
      /\ \A i \in 1..Len(a) + Len(b) : (a \o b)[i] = IF i <= Len(a) THEN a[i] ELSE b[i - Len(a)]
  <2>1. /\ a \o b \in Seq(Nat) /\ Len(a \o b) = Len(a) + Len(b)
        /\ \A i \in 1..Len(a) + Len(b) :
              (a \o b)[i] = IF i <= Len(a) THEN a[i] ELSE b[i - Len(a)]
    BY <1>1, ConcatProperties, Zenon
  <2> QED BY <1>1, <2>1
<1>3. Len(a \o b) = m - k
  BY <1>2
<1>4. ASSUME NEW i \in 1..m - k PROVE (a \o b)[i] = c[i]
  <2>1. i \in 1..(n - k) + (m - n) /\ c[i] = k + i
    BY <1>1
  <2>2. CASE i <= n - k
    <3>1. i \in 1..n - k
      BY <2>2
    <3> QED BY <1>1, <1>2, <2>1, <2>2, <3>1
  <2>3. CASE ~(i <= n - k)
    <3>1. i - (n - k) \in 1..m - n /\ n + (i - (n - k)) = k + i
      BY <2>3
    <3>2. (a \o b)[i] = b[i - (n - k)]
      BY <1>1, <1>2, <2>1, <2>3
    <3> QED BY <1>1, <2>1, <3>1, <3>2
  <2> QED BY <2>2, <2>3
<1>5. a \o b = c
  BY <1>1, <1>2, <1>3, <1>4, SeqEqual
<1> QED BY <1>5 DEF a, b, c

\* A part of a piece.
LEMMA PieceOfPiece ==
  ASSUME NEW n \in Nat, NEW m \in Nat, n <= m, NEW i \in 0..m - n, NEW j \in i..m - n
  PROVE  SubSeq(Lines!Piece(n, m), i + 1, j) = Lines!Piece(n + i, n + j)
<1> DEFINE p == Lines!Piece(n, m)
<1>1. p \in Seq(Nat) /\ Len(p) = m - n /\ \A x \in 1..m - n : p[x] = n + x
  BY PieceFacts
<1>2. n + i \in Nat /\ n + j \in Nat /\ n + i <= n + j /\ i + 1 \in 1..Len(p) + 1 /\ j \in i..Len(p)
  BY <1>1
<1>3. /\ Lines!Piece(n + i, n + j) \in Seq(Nat) /\ Len(Lines!Piece(n + i, n + j)) = (n + j) - (n + i)
      /\ \A x \in 1..(n + j) - (n + i) : Lines!Piece(n + i, n + j)[x] = (n + i) + x
  BY <1>2, PieceFacts
<1> HIDE DEF p
<1>4. /\ SubSeq(p, i + 1, j) \in Seq(Nat) /\ Len(SubSeq(p, i + 1, j)) = j - i
      /\ \A x \in 1..j - i : SubSeq(p, i + 1, j)[x] = p[i + x]
  <2>1. /\ \A x \in (i + 1)..j : p[x] \in Nat
        /\ SubSeq(p, i + 1, j) = [x \in 1..(1 + j - (i + 1)) |-> p[(i + 1) + x - 1]]
    BY <1>1, <1>2
  <2>2. 1 + j - (i + 1) = j - i /\ j - i \in Nat
        /\ \A x \in 1..j - i : (i + 1) + x - 1 = i + x /\ i + x \in (i + 1)..j
    BY <1>2
  <2>3. SubSeq(p, i + 1, j) = [x \in 1..j - i |-> p[i + x]]
    BY <2>1, <2>2
  <2> DEFINE q == SubSeq(p, i + 1, j)
  <2>4. q \in [1..j - i -> Nat]
    BY <2>1, <2>2, <2>3
  <2>5. q \in Seq(Nat)
    <3> HIDE DEF q
    <3> QED BY <2>2, <2>4, SeqDef
  <2>6. Len(q) = j - i
    <3> HIDE DEF q
    <3> QED BY <2>2, <2>4, <2>5, LenProperties
  <2>7. \A x \in 1..j - i : q[x] = p[i + x]
    BY <2>3
  <2> QED BY <2>5, <2>6, <2>7
<1>5. (n + j) - (n + i) = j - i
  OBVIOUS
<1>6. ASSUME NEW x \in 1..j - i PROVE SubSeq(p, i + 1, j)[x] = Lines!Piece(n + i, n + j)[x]
  <2>1. i + x \in 1..m - n /\ n + (i + x) = (n + i) + x
    OBVIOUS
  <2> QED BY <1>1, <1>3, <1>4, <1>5, <2>1
<1>7. SubSeq(p, i + 1, j) = Lines!Piece(n + i, n + j)
  BY <1>3, <1>4, <1>5, <1>6, SeqEqual
<1> QED BY <1>7 DEF p

\* The buffer holds the bytes behind base.
LEMMA BufferFacts ==
  ASSUME Lines!LinesInv
  PROVE  \E base \in Nat :
           /\ lb_taken \in Nat /\ lb_taken <= StreamBytes /\ base <= lb_taken
           /\ lb_next_char \in 0..lb_taken - base
           /\ lb_buf = Lines!Piece(base, lb_taken) /\ Len(lb_buf) = lb_taken - base /\ base = lb_taken - Len(lb_buf)
<1>1. /\ lb_taken \in 0..StreamBytes /\ Len(lb_buf) \in 0..lb_taken
      /\ lb_next_char \in 0..Len(lb_buf)
      /\ lb_buf = Lines!Piece(lb_taken - Len(lb_buf), lb_taken)
  BY DEF Lines!LinesInv
<1> DEFINE base == lb_taken - Len(lb_buf)
<1>2. PICK n : n = Len(lb_buf)
  OBVIOUS
<1>3. /\ lb_taken \in Nat /\ lb_taken <= StreamBytes /\ lb_taken - n \in Nat
      /\ lb_taken - n <= lb_taken
      /\ lb_taken - (lb_taken - n) = n
  BY <1>1, <1>2, LibraryAssumption
<1>4. /\ base \in Nat /\ base <= lb_taken /\ lb_taken \in Nat /\ lb_taken <= StreamBytes
      /\ Len(lb_buf) = lb_taken - base /\ lb_next_char \in 0..lb_taken - base /\ lb_buf = Lines!Piece(base, lb_taken)
  BY <1>1, <1>2, <1>3
<1> QED BY <1>4

\* What is held lies behind what has been returned.
LEMMA HeldFacts ==
  ASSUME Lines!LinesInv, NEW base \in Nat, base = lb_taken - Len(lb_buf)
  PROVE  /\ Lines!AtEnd => Lines!Held = lb_buf /\ Lines!Flat = Lines!Piece(0, base)
         /\ ~Lines!AtEnd => /\ Lines!Held = Lines!Unread /\ lb_next_char < lb_taken - base
                            /\ Lines!Unread = Lines!Piece(base + lb_next_char, lb_taken)
                            /\ Len(Lines!Unread) = lb_taken - (base + lb_next_char)
                            /\ Lines!Flat = Lines!Piece(0, base + lb_next_char)
<1>1. /\ lb_taken \in Nat /\ lb_taken <= StreamBytes /\ base <= lb_taken
      /\ lb_next_char \in 0..lb_taken - base
      /\ lb_buf = Lines!Piece(base, lb_taken) /\ Len(lb_buf) = lb_taken - base
  BY BufferFacts
<1>2. Lines!Flat = Lines!Piece(0, lb_taken - Len(Lines!Held))
  BY DEF Lines!LinesInv
<1>3. CASE Lines!AtEnd
  BY <1>1, <1>2, <1>3 DEF Lines!Held
<1>4. CASE ~Lines!AtEnd
  <2>1. lb_next_char # Len(lb_buf) /\ Lines!Held = Lines!Unread
    BY <1>4 DEF Lines!AtEnd, Lines!Held
  <2>2. lb_next_char < lb_taken - base /\ lb_taken - base \in lb_next_char..lb_taken - base
        /\ base + (lb_taken - base) = lb_taken
    BY <1>1, <2>1
  <2>3. Lines!Unread = Lines!Piece(base + lb_next_char, lb_taken)
    <3>1. SubSeq(Lines!Piece(base, lb_taken), lb_next_char + 1, lb_taken - base)
            = Lines!Piece(base + lb_next_char, base + (lb_taken - base))
      BY <1>1, <2>2, PieceOfPiece
    <3> QED BY <1>1, <2>2, <3>1 DEF Lines!Unread
  <2>4. base + lb_next_char \in Nat /\ base + lb_next_char <= lb_taken
        /\ lb_taken - (lb_taken - (base + lb_next_char)) = base + lb_next_char
    BY <1>1
  <2>5. Len(Lines!Unread) = lb_taken - (base + lb_next_char)
    BY <1>1, <2>3, <2>4, PieceFacts
  <2> QED BY <1>2, <1>4, <2>1, <2>2, <2>3, <2>4, <2>5
<1> QED BY <1>3, <1>4

\* Where lines fit there is no long piece without a newline.
LEMMA NoLongLine ==
  ASSUME Lines!LinesFit, NEW a \in Nat, NEW b \in Nat, a <= b, b <= StreamBytes,
         \A x \in (a + 1)..b : x \notin lb_NewlineAt
  PROVE  b - a < MaxMsgLen
<1> SUFFICES ASSUME b - a >= MaxMsgLen PROVE FALSE
  BY LibraryAssumption
<1>1. a \in 0..(StreamBytes - MaxMsgLen)
  BY LibraryAssumption
<1>2. PICK j \in (a + 1)..(a + MaxMsgLen) : j \in lb_NewlineAt
  BY <1>1 DEF Lines!LinesFit
<1>3. j \in (a + 1)..b
  BY LibraryAssumption
<1> QED BY <1>2, <1>3

\* The next state, from what it has in its variables.
LEMMA NextLines ==
  ASSUME NEW t \in Nat, t <= StreamBytes, lb_taken' = t, NEW base \in Nat, base <= t,
         lb_buf' = Lines!Piece(base, t), NEW n \in 0..t - base, lb_next_char' = n,
         lb_NewlineAt' = lb_NewlineAt, lb_NewlineAt \subseteq Lines!Byte,
         n = t - base => \A x \in (base + 1)..t : x \notin lb_NewlineAt,
         Lines!LinesFit => t - base <= 2 * MaxMsgLen - 1,
         lb_lines' \in Seq(Seq(Lines!Byte)),
         \A j \in 1..Len(lb_lines') : Lines!WholeLine(lb_lines'[j], lb_NewlineAt),
         Lines!Flat' = Lines!Piece(0, IF n = t - base THEN base ELSE base + n)
  PROVE  Lines!LinesInv'
<1>1. /\ Len(lb_buf') = t - base /\ t - base \in Nat /\ t - (t - base) = base
      /\ \A i \in 1..t - base : lb_buf'[i] = base + i
  <2>1. t - base \in Nat /\ t - (t - base) = base
    OBVIOUS
  <2>2. Len(Lines!Piece(base, t)) = t - base /\ \A i \in 1..t - base : Lines!Piece(base, t)[i] = base + i
    BY PieceFacts
  <2> QED BY <2>1, <2>2
<1>2. Lines!AtEnd' <=> n = t - base
  BY <1>1 DEF Lines!AtEnd
<1>3. ASSUME n = t - base, NEW i \in 1..Len(lb_buf') PROVE lb_buf'[i] \notin lb_NewlineAt'
  <2>1. base + i \in (base + 1)..t /\ lb_buf'[i] = base + i
    BY <1>1
  <2> QED BY <1>3, <2>1
<1>4. Lines!StaysInBuffer'
  <2>1. Lines!LinesFit' <=> Lines!LinesFit
    BY DEF Lines!LinesFit
  <2> QED BY <1>1, <2>1, LibraryAssumption DEF Lines!StaysInBuffer, Lines!Overrun
<1>5. Lines!Flat' = Lines!Piece(0, lb_taken' - Len(Lines!Held'))
  <2>1. CASE n = t - base
    <3>1. Lines!Held' = lb_buf'
      BY <1>2, <2>1 DEF Lines!Held
    <3> QED BY <1>1, <2>1, <3>1
  <2>2. CASE n # t - base
    <3>1. Lines!Held' = SubSeq(lb_buf', n + 1, t - base)
      BY <1>1, <1>2, <2>2 DEF Lines!Held, Lines!Unread
    <3>2. t - base \in n..t - base /\ base + (t - base) = t /\ base + n \in Nat /\ base + n <= t
          /\ t - (t - (base + n)) = base + n
      OBVIOUS
    <3>3. Lines!Held' = Lines!Piece(base + n, t)
      BY <3>1, <3>2, PieceOfPiece
    <3>4. Len(Lines!Held') = t - (base + n)
      BY <3>2, <3>3, PieceFacts
    <3> QED BY <2>2, <3>2, <3>4
  <2> QED BY <2>1, <2>2
<1>6. lb_taken' \in 0..StreamBytes /\ Len(lb_buf') \in 0..lb_taken' /\ lb_next_char' \in 0..Len(lb_buf')
      /\ lb_buf' = Lines!Piece(lb_taken' - Len(lb_buf'), lb_taken')
  BY <1>1, LibraryAssumption
<1>7. Lines!AtEnd' => \A i \in 1..Len(lb_buf') : lb_buf'[i] \notin lb_NewlineAt'
  BY <1>2, <1>3
<1> QED BY <1>4, <1>5, <1>6, <1>7 DEF Lines!LinesInv

\* Before the first call nothing has been read.
LEMMA LinesBegin == Lines!Init => Lines!LinesInv
<1> SUFFICES ASSUME Lines!Init PROVE Lines!LinesInv
  OBVIOUS
<1>1. lb_NewlineAt \subseteq Lines!Byte /\ lb_taken = 0 /\ lb_buf = <<>> /\ lb_next_char = 0 /\ lb_lines = <<>>
  BY DEF Lines!Init, Lines!Byte
<1>2. Len(lb_buf) = 0
  BY <1>1
<1>3. Lines!Piece(0, 0) = <<>>
  BY DEF Lines!Piece
<1>4. Lines!Flat = <<>> /\ Lines!Held = <<>> /\ lb_lines \in Seq(Seq(Lines!Byte))
  BY <1>1, <1>2 DEF Lines!Flat, Lines!FlattenSeq, Lines!Held, Lines!AtEnd
<1>5. Lines!StaysInBuffer
  BY <1>2, LibraryAssumption DEF Lines!StaysInBuffer, Lines!Overrun
<1>6. lb_buf = Lines!Piece(lb_taken - Len(lb_buf), lb_taken) /\ Lines!Flat = Lines!Piece(0, lb_taken - Len(Lines!Held))
  <2>1. Len(Lines!Held) = 0
    BY <1>4
  <2>2. 0 - 0 = 0
    OBVIOUS
  <2>3. lb_taken - Len(lb_buf) = 0 /\ lb_taken - Len(Lines!Held) = 0
    BY <1>1, <1>2, <2>1, <2>2, Zenon
  <2> QED BY <1>1, <1>3, <1>4, <2>3
<1>7. Len(lb_lines) = 0
  BY <1>1
<1> QED BY <1>1, <1>2, <1>4, <1>5, <1>6, <1>7, LibraryAssumption DEF Lines!LinesInv

\* The newlines that are left are those behind next_char.
LEMMA NewlinesAre ==
  ASSUME NEW base \in Nat, NEW t \in Nat, base <= t, lb_buf = Lines!Piece(base, t), lb_next_char \in 0..t - base,
         NEW i \in (lb_next_char + 1)..t - base
  PROVE  lb_buf[i] = base + i /\ (i \in Lines!Newlines <=> base + i \in lb_NewlineAt)
<1>1. Len(lb_buf) = t - base /\ i \in 1..t - base
  <2>1. t - base \in Nat /\ i \in 1..t - base
    OBVIOUS
  <2> QED BY <2>1, PieceFacts
<1>2. lb_buf[i] = base + i
  BY <1>1, PieceFacts
<1> QED BY <1>1, <1>2 DEF Lines!Newlines

LEMMA FillStep == ASSUME Lines!LinesInv, Lines!Fill PROVE Lines!LinesInv'
<1>1. PICK base \in Nat :
        /\ lb_taken \in Nat /\ lb_taken <= StreamBytes /\ base <= lb_taken
        /\ lb_next_char \in 0..lb_taken - base
        /\ lb_buf = Lines!Piece(base, lb_taken) /\ Len(lb_buf) = lb_taken - base /\ base = lb_taken - Len(lb_buf)
  BY BufferFacts
<1>2. PICK n \in 1..MaxMsgLen :
        /\ lb_taken + n <= StreamBytes
        /\ lb_taken' = lb_taken + n
        /\ lb_buf' = lb_buf \o [i \in 1..n |-> lb_taken + i]
  BY DEF Lines!Fill
<1>3. Lines!AtEnd /\ lb_next_char' = 0 /\ lb_NewlineAt' = lb_NewlineAt /\ lb_lines' = lb_lines
  BY DEF Lines!Fill
<1>4. PICK t : t = lb_taken'
  OBVIOUS
<1>5. /\ n \in Nat /\ n >= 1 /\ n <= MaxMsgLen /\ t \in Nat /\ lb_taken <= t /\ t <= StreamBytes
      /\ t - lb_taken = n /\ base <= t /\ 0 \in 0..t - base /\ 0 # t - base
  BY <1>1, <1>2, <1>4, LibraryAssumption
<1>6. lb_buf' = Lines!Piece(base, t)
  <2>1. Lines!Piece(lb_taken, t) = [i \in 1..n |-> lb_taken + i]
    BY <1>5 DEF Lines!Piece
  <2>2. Lines!Piece(base, lb_taken) \o Lines!Piece(lb_taken, t) = Lines!Piece(base, t)
    BY <1>1, <1>5, PiecesJoin
  <2> QED BY <1>1, <1>2, <2>1, <2>2
<1>7. ASSUME Lines!LinesFit PROVE t - base <= 2 * MaxMsgLen - 1
  <2>1. ASSUME NEW x \in (base + 1)..lb_taken PROVE x \notin lb_NewlineAt
    <3>1. x - base \in 1..lb_taken - base /\ base + (x - base) = x
      BY <1>1
    <3>2. lb_buf[x - base] = x
      BY <1>1, <3>1, PieceFacts
    <3>3. lb_buf[x - base] \notin lb_NewlineAt
      BY <1>1, <1>3, <3>1 DEF Lines!LinesInv
    <3> QED BY <3>2, <3>3
  <2>2. lb_taken - base < MaxMsgLen
    BY <1>1, <1>7, <2>1, NoLongLine
  <2> QED BY <1>1, <1>5, <2>2, LibraryAssumption
<1>8. Lines!Flat' = Lines!Piece(0, base + 0)
  <2>1. Lines!Flat = Lines!Piece(0, base) /\ base + 0 = base
    BY <1>1, <1>3, HeldFacts
  <2> QED BY <1>3, <2>1 DEF Lines!Flat
<1>9. /\ lb_NewlineAt \subseteq Lines!Byte /\ lb_lines' \in Seq(Seq(Lines!Byte))
      /\ \A j \in 1..Len(lb_lines') : Lines!WholeLine(lb_lines'[j], lb_NewlineAt)
  BY <1>3 DEF Lines!LinesInv
<1> QED BY <1>3, <1>4, <1>5, <1>6, <1>7, <1>8, <1>9, NextLines

LEMMA TakeStep == ASSUME Lines!LinesInv, Lines!Take PROVE Lines!LinesInv'
<1>1. PICK base \in Nat :
        /\ lb_taken \in Nat /\ lb_taken <= StreamBytes /\ base <= lb_taken
        /\ lb_next_char \in 0..lb_taken - base
        /\ lb_buf = Lines!Piece(base, lb_taken) /\ Len(lb_buf) = lb_taken - base /\ base = lb_taken - Len(lb_buf)
  BY BufferFacts
<1>3. ~Lines!AtEnd /\ Lines!Newlines # {} /\ lb_NewlineAt' = lb_NewlineAt /\ lb_taken' = lb_taken
  BY DEF Lines!Take
<1>4. PICK nl : nl = Lines!Min(Lines!Newlines)
  OBVIOUS
<1>5. nl \in Lines!Newlines /\ \A i \in Lines!Newlines : nl <= i
  <2>1. Lines!Newlines \subseteq Nat
    BY <1>1 DEF Lines!Newlines
  <2>2. \E m \in Lines!Newlines : \A k \in Lines!Newlines : m <= k
    BY <1>3, <2>1, LeastNatural
  <2> QED BY <1>4, <2>2 DEF Lines!Min
<1>6. nl \in (lb_next_char + 1)..lb_taken - base /\ nl \in Nat /\ lb_next_char \in Nat
  BY <1>1, <1>5 DEF Lines!Newlines
<1>7. PICK line : line = SubSeq(lb_buf, lb_next_char + 1, nl)
  OBVIOUS
<1>8. /\ lb_lines' = Append(lb_lines, line)
      /\ IF nl = Len(lb_buf) THEN lb_next_char' = 0 /\ lb_buf' = <<>>
                             ELSE lb_next_char' = nl /\ UNCHANGED lb_buf
  BY <1>4, <1>7 DEF Lines!Take
<1>9. /\ base + lb_next_char \in Nat /\ base + nl \in Nat
      /\ base + lb_next_char <= base + nl
      /\ base + nl <= lb_taken /\ base + nl <= StreamBytes
      /\ (base + nl) - (base + lb_next_char) = nl - lb_next_char
      /\ nl \in lb_next_char..lb_taken - base
  BY <1>1, <1>6, LibraryAssumption
<1>10. line = Lines!Piece(base + lb_next_char, base + nl)
  BY <1>1, <1>7, <1>9, PieceOfPiece
<1>11. /\ line \in Seq(Lines!Byte) /\ Len(line) = nl - lb_next_char
       /\ \A i \in 1..nl - lb_next_char : line[i] = (base + lb_next_char) + i
  BY <1>9, <1>10, PieceFacts
<1>12. Lines!WholeLine(line, lb_NewlineAt)
  <2> SUFFICES ASSUME NEW i \in 1..Len(line) PROVE line[i] \in lb_NewlineAt <=> i = Len(line)
    BY DEF Lines!WholeLine
  <2>1. i \in 1..nl - lb_next_char /\ lb_next_char + i \in (lb_next_char + 1)..lb_taken - base
        /\ lb_next_char + i <= nl
        /\ base + (lb_next_char + i) = (base + lb_next_char) + i
        /\ (i = nl - lb_next_char <=> lb_next_char + i = nl)
    BY <1>1, <1>6, <1>11
  <2>2. line[i] = base + (lb_next_char + i)
    BY <1>11, <2>1
  <2>3. lb_next_char + i \in Lines!Newlines <=> base + (lb_next_char + i) \in lb_NewlineAt
    BY <1>1, <2>1, NewlinesAre
  <2>4. lb_next_char + i \in Lines!Newlines <=> lb_next_char + i = nl
    BY <1>5, <1>6, <2>1
  <2> QED BY <1>11, <2>1, <2>2, <2>3, <2>4
<1>13. lb_lines \in Seq(Seq(Lines!Byte)) /\ Lines!Flat = Lines!Piece(0, base + lb_next_char)
  BY <1>1, <1>3, HeldFacts DEF Lines!LinesInv
<1>14. Lines!Flat' = Lines!Piece(0, base + nl)
  <2>1. Lines!Flat' = Lines!Flat \o line
    BY <1>8, <1>11, <1>13, FlattenOfMore DEF Lines!Flat
  <2>2. 0 <= base + lb_next_char /\ 0 \in Nat
    BY <1>9
  <2>3. Lines!Piece(0, base + lb_next_char) \o Lines!Piece(base + lb_next_char, base + nl) = Lines!Piece(0, base + nl)
    BY <1>9, <2>2, PiecesJoin
  <2> QED BY <1>10, <1>13, <2>1, <2>3
<1>15. /\ lb_lines' \in Seq(Seq(Lines!Byte)) /\ lb_NewlineAt \subseteq Lines!Byte
       /\ \A j \in 1..Len(lb_lines') : Lines!WholeLine(lb_lines'[j], lb_NewlineAt)
  <2>1. /\ lb_lines' \in Seq(Seq(Lines!Byte)) /\ Len(lb_lines') = Len(lb_lines) + 1 /\ Len(lb_lines) \in Nat
        /\ \A j \in 1..Len(lb_lines) : lb_lines'[j] = lb_lines[j]
        /\ lb_lines'[Len(lb_lines) + 1] = line
    BY <1>8, <1>11, <1>13, AppendProperties, LenProperties
  <2>2. \A j \in 1..Len(lb_lines') : j \in 1..Len(lb_lines) \/ j = Len(lb_lines) + 1
    BY <2>1
  <2>3. lb_NewlineAt \subseteq Lines!Byte /\ \A j \in 1..Len(lb_lines) : Lines!WholeLine(lb_lines[j], lb_NewlineAt)
    BY DEF Lines!LinesInv
  <2> QED BY <1>12, <2>1, <2>2, <2>3
<1>16. Lines!LinesFit => lb_taken - base <= 2 * MaxMsgLen - 1
  <2>1. lb_taken - base \in Int /\ Lines!LinesFit => ~(lb_taken - base > 2 * MaxMsgLen - 1)
    BY <1>1 DEF Lines!LinesInv, Lines!StaysInBuffer, Lines!Overrun
  <2> QED BY <1>1, <2>1, LibraryAssumption
<1>17. CASE nl = Len(lb_buf)
  <2>1. lb_next_char' = 0 /\ lb_buf' = <<>> /\ base + nl = lb_taken
    BY <1>1, <1>8, <1>17
  <2>2. lb_taken - lb_taken = 0 /\ Lines!Piece(lb_taken, lb_taken) = <<>> /\ 0 \in 0..lb_taken - lb_taken /\ lb_taken <= lb_taken
        /\ (lb_taken + 1)..lb_taken = {}
    <3>1. lb_taken - lb_taken = 0
      BY <1>1
    <3> QED BY <1>1, <3>1 DEF Lines!Piece
  <2>3. 0 <= 2 * MaxMsgLen - 1
    BY LibraryAssumption
  <2> QED BY <1>1, <1>3, <1>14, <1>15, <2>1, <2>2, <2>3, NextLines
<1>18. CASE nl # Len(lb_buf)
  <2>1. lb_next_char' = nl /\ lb_buf' = lb_buf
    BY <1>8, <1>18
  <2>2. nl # lb_taken - base /\ nl \in 0..lb_taken - base
    BY <1>1, <1>6, <1>18
  <2> QED BY <1>1, <1>3, <1>14, <1>15, <1>16, <2>1, <2>2, NextLines
<1> QED BY <1>17, <1>18

LEMMA SwapStep == ASSUME Lines!LinesInv, Lines!Swap PROVE Lines!LinesInv'
<1>1. PICK base \in Nat :
        /\ lb_taken \in Nat /\ lb_taken <= StreamBytes /\ base <= lb_taken
        /\ lb_next_char \in 0..lb_taken - base
        /\ lb_buf = Lines!Piece(base, lb_taken) /\ Len(lb_buf) = lb_taken - base /\ base = lb_taken - Len(lb_buf)
  BY BufferFacts
<1>2. /\ ~Lines!AtEnd /\ Lines!Newlines = {} /\ lb_buf' = Lines!Unread
      /\ lb_next_char' = Len(Lines!Unread)
      /\ lb_NewlineAt' = lb_NewlineAt /\ lb_taken' = lb_taken /\ lb_lines' = lb_lines
  BY DEF Lines!Swap
<1>3. PICK b : b = base + lb_next_char
  OBVIOUS
<1>4. /\ Lines!Unread = Lines!Piece(b, lb_taken) /\ Lines!Flat = Lines!Piece(0, b) /\ Len(Lines!Unread) = lb_taken - b
  BY <1>1, <1>2, <1>3, HeldFacts
<1>5. b \in Nat /\ b <= lb_taken /\ lb_taken - b \in 0..lb_taken - b /\ lb_taken - b <= lb_taken - base
  BY <1>1, <1>3
<1>6. ASSUME NEW x \in (b + 1)..lb_taken PROVE x \notin lb_NewlineAt
  <2>1. x - base \in (lb_next_char + 1)..lb_taken - base /\ base + (x - base) = x
    BY <1>1, <1>3
  <2> QED BY <1>1, <1>2, <2>1, NewlinesAre
<1>7. Lines!LinesFit => lb_taken - b <= 2 * MaxMsgLen - 1
  <2>1. lb_taken - base \in Int /\ Lines!LinesFit => ~(lb_taken - base > 2 * MaxMsgLen - 1)
    BY <1>1 DEF Lines!LinesInv, Lines!StaysInBuffer, Lines!Overrun
  <2> QED BY <1>1, <1>5, <2>1, LibraryAssumption
<1>8. /\ lb_NewlineAt \subseteq Lines!Byte /\ lb_lines' \in Seq(Seq(Lines!Byte))
      /\ Lines!Flat' = Lines!Piece(0, b)
      /\ \A j \in 1..Len(lb_lines') : Lines!WholeLine(lb_lines'[j], lb_NewlineAt)
  BY <1>2, <1>4 DEF Lines!LinesInv, Lines!Flat
<1> QED BY <1>1, <1>2, <1>4, <1>5, <1>6, <1>7, <1>8, NextLines

LEMMA LinesStep == ASSUME Lines!LinesInv, [Lines!Next]_Lines!vars PROVE Lines!LinesInv'
<1>1. CASE UNCHANGED Lines!vars
  BY <1>1 DEF Lines!vars, Lines!LinesInv, Lines!AtEnd, Lines!StaysInBuffer, Lines!Overrun,
    Lines!LinesFit, Lines!Flat, Lines!Held, Lines!Unread
<1>2. CASE Lines!FillFails
  BY <1>1, <1>2 DEF Lines!FillFails
<1> QED BY <1>1, <1>2, FillStep, TakeStep, SwapStep DEF Lines!Next

LEMMA LinesInvMeans == Lines!LinesInv => Lines!LinesInOrder /\ Lines!StaysInBuffer
<1> SUFFICES ASSUME Lines!LinesInv PROVE Lines!LinesInOrder
  BY DEF Lines!LinesInv
<1>1. PICK base \in Nat :
        /\ lb_taken \in Nat /\ lb_taken <= StreamBytes /\ base <= lb_taken
        /\ lb_next_char \in 0..lb_taken - base
        /\ lb_buf = Lines!Piece(base, lb_taken) /\ Len(lb_buf) = lb_taken - base /\ base = lb_taken - Len(lb_buf)
  BY BufferFacts
<1>2. PICK k \in Nat : k <= lb_taken /\ Lines!Held = Lines!Piece(k, lb_taken) /\ Lines!Flat = Lines!Piece(0, k)
  <2>1. CASE Lines!AtEnd
    BY <1>1, <2>1, HeldFacts
  <2>2. CASE ~Lines!AtEnd
    <3>1. base + lb_next_char \in Nat /\ base + lb_next_char <= lb_taken
      BY <1>1
    <3> QED BY <1>1, <2>2, <3>1, HeldFacts
  <2> QED BY <2>1, <2>2
<1>3. Lines!Flat \o Lines!Held = Lines!Piece(0, lb_taken)
  <2>1. 0 \in Nat /\ 0 <= k
    OBVIOUS
  <2>2. Lines!Piece(0, k) \o Lines!Piece(k, lb_taken) = Lines!Piece(0, lb_taken)
    BY <1>1, <1>2, <2>1, PiecesJoin
  <2> QED BY <1>2, <2>2
<1>4. Lines!Piece(0, lb_taken) = [i \in 1..lb_taken |-> i]
  BY <1>1 DEF Lines!Piece
<1> QED BY <1>3, <1>4 DEF Lines!LinesInOrder, Lines!LinesInv, Lines!WholeLine

-----------------------------------------------------------------------------
(***************************************************************************)
(* Proofs about lib/dynamic_array.c, for any values and any size.          *)
(***************************************************************************)

Array ==
  INSTANCE DynArray WITH
    Values <- Stored, MaxSize <- MaxElements,
    block <- x1, capacity <- x2, size <- x3, live <- x4, seq <- x5

da_block == x1
da_capacity == x2
da_size == x3
da_live == x4
da_seq == x5

USE DEF da_block, da_capacity, da_size, da_live, da_seq

\* Sequences of the first elements of a block.
LEMMA FirstOfBlock ==
  ASSUME NEW n \in Nat, NEW b, NEW s, s = [i \in 1..n |-> b[i - 1]],
         \A i \in 1..n : b[i - 1] \in Array!Elements
  PROVE  s \in Seq(Array!Elements) /\ Len(s) = n
<1>1. s \in [1..n -> Array!Elements]
  OBVIOUS
<1> QED BY <1>1, SeqDef, LenProperties

\* The invariant says what ArrayIsSequence says.
LEMMA ArrayInvMeans == Array!ArrayInv => Array!ArrayIsSequence
<1> SUFFICES ASSUME Array!ArrayInv PROVE Array!ArrayIsSequence
  OBVIOUS
<1>1. da_seq = [i \in 1..Len(da_seq) |-> da_seq[i]]
  BY DEF Array!ArrayInv
<1>2. da_seq = [i \in 1..da_size |-> da_block[i - 1]]
  BY <1>1 DEF Array!ArrayInv
<1> QED BY <1>2 DEF Array!ArrayInv, Array!ArrayIsSequence

\* Before da_init there is no element.
LEMMA ArrayBegins == Array!Init => Array!ArrayInv
<1> SUFFICES ASSUME Array!Init PROVE Array!ArrayInv
  OBVIOUS
<1>1. <<>> \in Seq(Array!Elements) /\ Len(<<>>) = 0
  OBVIOUS
<1>2. da_block \in [0..0 - 1 -> Array!Elements]
  BY DEF Array!Init, Array!Block, Array!Elements
<1> QED BY <1>1, <1>2 DEF Array!Init, Array!ArrayInv

\* realloc keeps what there was.
LEMMA ReallocKeeps ==
  ASSUME Array!ArrayInv, NEW n \in Nat, n >= da_capacity
  PROVE  /\ Array!Realloc(n) \in [0..n - 1 -> Array!Elements]
         /\ \A i \in 0..da_capacity - 1 : Array!Realloc(n)[i] = da_block[i]
<1>1. DOMAIN da_block = 0..da_capacity - 1 /\ da_capacity \in Nat
  BY DEF Array!ArrayInv
<1>2. \A i \in DOMAIN da_block : i \in 0..n - 1
  BY <1>1
<1>3. \A i \in DOMAIN da_block : da_block[i] \in Array!Elements
  BY DEF Array!ArrayInv
<1>4. Junk \in Array!Elements
  BY DEF Array!Elements
<1> QED BY <1>1, <1>2, <1>3, <1>4 DEF Array!Realloc

\* A push stores behind what is in use.
LEMMA PushStep == ASSUME Array!ArrayInv, NEW v \in Stored, Array!DaPush(v) PROVE Array!ArrayInv'
<1>0. PICK c : c = da_capacity'
  OBVIOUS
<1>1. /\ c \in Nat /\ da_size \in 0..c - 1 /\ da_size \in Nat
      /\ \E b \in [0..c - 1 -> Array!Elements] :
           /\ da_block' = [b EXCEPT ![da_size] = v]
           /\ \A i \in 0..da_capacity - 1 : b[i] = da_block[i]
  <2>0. da_size \in Nat /\ da_capacity \in Nat /\ da_size <= da_capacity /\ da_block \in [0..da_capacity - 1 -> Array!Elements]
    BY DEF Array!ArrayInv
  <2>1. CASE da_size >= da_capacity
    <3>1. c = (IF da_capacity = 0 THEN 1 ELSE 2 * da_capacity) /\ da_block' = [Array!Realloc(c) EXCEPT ![da_size] = v]
      BY <1>0, <2>1 DEF Array!DaPush
    <3>2. c \in Nat /\ c > da_capacity
      BY <2>0, <3>1
    <3>3. /\ Array!Realloc(c) \in [0..c - 1 -> Array!Elements]
          /\ \A i \in 0..da_capacity - 1 : Array!Realloc(c)[i] = da_block[i]
      BY <3>2, <2>0, ReallocKeeps
    <3>4. da_size \in 0..c - 1
      BY <2>0, <3>2
    <3> QED BY <2>0, <3>1, <3>2, <3>3, <3>4
  <2>2. CASE ~(da_size >= da_capacity)
    <3>1. c = da_capacity /\ da_block' = [da_block EXCEPT ![da_size] = v] /\ da_size \in 0..da_capacity - 1
      BY <1>0, <2>0, <2>2 DEF Array!DaPush
    <3> QED BY <2>0, <3>1
  <2> QED BY <2>1, <2>2
<1>2. PICK b \in [0..c - 1 -> Array!Elements] :
        /\ da_block' = [b EXCEPT ![da_size] = v]
        /\ \A i \in 0..da_capacity - 1 : b[i] = da_block[i]
  BY <1>1
<1>3. v \in Array!Elements
  BY DEF Array!Elements
<1>4. da_block' \in [0..c - 1 -> Array!Elements]
  BY <1>2, <1>3
<1>5. da_size' = da_size + 1 /\ da_seq' = Append(da_seq, v)
  BY DEF Array!DaPush
<1>6. /\ da_seq' \in Seq(Array!Elements) /\ Len(da_seq') = Len(da_seq) + 1 /\ Len(da_seq) = da_size
      /\ \A i \in 1..Len(da_seq) : da_seq'[i] = da_seq[i]
      /\ da_seq'[Len(da_seq) + 1] = v
  BY <1>3, <1>5, AppendProperties DEF Array!ArrayInv
<1>7. ASSUME NEW i \in 1..da_size' PROVE da_seq'[i] = da_block'[i - 1]
  <2>1. CASE i = da_size + 1
    <3>1. da_block'[da_size] = v /\ i - 1 = da_size
      BY <1>1, <1>2, <2>1
    <3> QED BY <1>6, <2>1, <3>1
  <2>2. CASE i # da_size + 1
    <3>0. da_size \in Nat /\ da_capacity \in Nat /\ da_size <= da_capacity /\ c \in Nat /\ da_size <= c - 1
      BY <1>1 DEF Array!ArrayInv
    <3>1. i \in 1..da_size /\ i - 1 \in 0..da_capacity - 1 /\ i - 1 # da_size /\ i - 1 \in 0..c - 1
      BY <1>5, <2>2, <3>0
    <3>2. da_block'[i - 1] = da_block[i - 1]
      BY <1>2, <3>1
    <3>3. da_seq'[i] = da_seq[i] /\ da_seq[i] = da_block[i - 1]
      BY <1>6, <3>1 DEF Array!ArrayInv
    <3> QED BY <3>2, <3>3
  <2> QED BY <2>1, <2>2
<1>8. da_size' \in Nat /\ da_capacity' \in Nat /\ da_size' <= da_capacity'
  <2>1. c \in Nat /\ da_size \in 0..c - 1 /\ da_size \in Nat
    BY <1>1
  <2>2. da_size + 1 \in Nat /\ da_size + 1 <= c
    BY <2>1
  <2> QED BY <1>0, <1>5, <2>1, <2>2
<1> QED BY <1>0, <1>4, <1>5, <1>6, <1>7, <1>8 DEF Array!ArrayInv

LEMMA ReverseStep == ASSUME Array!ArrayInv, Array!DaReverse PROVE Array!ArrayInv'
<1>0. /\ da_size \in Nat /\ da_capacity \in Nat /\ da_size <= da_capacity
      /\ da_block \in [0..da_capacity - 1 -> Array!Elements]
      /\ da_seq \in Seq(Array!Elements) /\ Len(da_seq) = da_size
      /\ \A i \in 1..da_size : da_seq[i] = da_block[i - 1]
  BY DEF Array!ArrayInv
<1>1. /\ da_block' = [i \in 0..da_capacity - 1 |-> IF i < da_size THEN da_block[da_size - 1 - i] ELSE Junk]
      /\ da_seq' = [i \in 1..da_size |-> da_seq[(da_size - i) + 1]]
      /\ da_size' = da_size /\ da_capacity' = da_capacity
  <2>1. DOMAIN da_block = 0..da_capacity - 1
    BY <1>0
  <2> QED BY <1>0, <2>1 DEF Array!DaReverse, Array!Reverse
<1>2. \A i \in 0..da_size - 1 : da_size - 1 - i \in 0..da_capacity - 1
  BY <1>0
<1>3. da_block' \in [0..da_capacity - 1 -> Array!Elements]
  <2>1. \A i \in 0..da_capacity - 1 : i < da_size => i \in 0..da_size - 1
    BY <1>0
  <2>2. Junk \in Array!Elements
    BY DEF Array!Elements
  <2> QED BY <1>0, <1>1, <1>2, <2>1, <2>2
<1>4. ASSUME NEW i \in 1..da_size PROVE da_seq'[i] = da_block'[i - 1]
  <2>1. i - 1 \in 0..da_capacity - 1 /\ i - 1 < da_size /\ (da_size - i) + 1 \in 1..da_size
        /\ ((da_size - i) + 1) - 1 = da_size - 1 - (i - 1)
    BY <1>0
  <2>2. da_seq'[i] = da_seq[(da_size - i) + 1] /\ da_seq[(da_size - i) + 1] = da_block[((da_size - i) + 1) - 1]
    BY <1>0, <1>1, <2>1
  <2>3. da_block'[i - 1] = da_block[da_size - 1 - (i - 1)]
    BY <1>1, <2>1
  <2> QED BY <2>1, <2>2, <2>3
<1>5. da_seq' = [i \in 1..da_size |-> da_block'[i - 1]]
  BY <1>1, <1>4
<1>6. \A i \in 1..da_size : da_block'[i - 1] \in Array!Elements
  <2>1. \A i \in 1..da_size : i - 1 \in 0..da_capacity - 1
    BY <1>0
  <2> QED BY <1>3, <2>1
<1>7. da_seq' \in Seq(Array!Elements) /\ Len(da_seq') = da_size
  BY <1>0, <1>5, <1>6, FirstOfBlock
<1> QED BY <1>0, <1>1, <1>3, <1>4, <1>7 DEF Array!ArrayInv

LEMMA InitStep == ASSUME Array!ArrayInv, NEW n \in 0..2, NEW v \in Stored, Array!DaInit(n, v) PROVE Array!ArrayInv'
<1>1. /\ da_block' = [i \in 0..n - 1 |-> v] /\ da_capacity' = n /\ da_size' = n
      /\ da_seq' = [i \in 1..n |-> v]
  BY DEF Array!DaInit
<1>2. v \in Array!Elements /\ n \in Nat
  BY DEF Array!Elements
<1>3. da_block' \in [0..n - 1 -> Array!Elements]
  BY <1>1, <1>2
<1>4. \A i \in 1..n : i - 1 \in 0..n - 1 /\ da_block'[i - 1] = v /\ da_seq'[i] = v
  BY <1>1
<1>5. da_seq' = [i \in 1..n |-> da_block'[i - 1]]
  BY <1>1, <1>4
<1>6. da_seq' \in Seq(Array!Elements) /\ Len(da_seq') = n
  BY <1>2, <1>4, <1>5, FirstOfBlock
<1> QED BY <1>1, <1>2, <1>3, <1>4, <1>6 DEF Array!ArrayInv

LEMMA ArrayStep == ASSUME Array!ArrayInv, [Array!Next]_Array!vars PROVE Array!ArrayInv'
<1>1. ASSUME NEW n \in 0..2, NEW v \in Stored, Array!DaInit(n, v) PROVE Array!ArrayInv'
  BY <1>1, InitStep
<1>2. ASSUME NEW n \in 0..MaxElements, Array!DaReserve(n) PROVE Array!ArrayInv'
  <2>1. n \in Nat /\ n > da_capacity /\ da_block' = Array!Realloc(n) /\ da_capacity' = n
        /\ UNCHANGED <<da_size, da_seq>>
    BY <1>2, LibraryAssumption DEF Array!DaReserve
  <2>2. da_size \in Nat /\ da_capacity \in Nat /\ da_size <= da_capacity
    BY DEF Array!ArrayInv
  <2>3. /\ da_block' \in [0..n - 1 -> Array!Elements]
        /\ \A i \in 0..da_capacity - 1 : da_block'[i] = da_block[i]
    BY <2>1, <2>2, ReallocKeeps
  <2>4. \A i \in 1..da_size : i - 1 \in 0..da_capacity - 1
    BY <2>2
  <2>5. da_size <= n
    BY <2>1, <2>2
  <2> QED BY <2>1, <2>2, <2>3, <2>4, <2>5 DEF Array!ArrayInv
<1>3. ASSUME NEW v \in Stored, Array!DaPush(v) PROVE Array!ArrayInv'
  BY <1>3, PushStep
<1>4. ASSUME Array!DaPop PROVE Array!ArrayInv'
  <2>1. da_size >= 1 /\ da_size' = da_size - 1 /\ da_seq' = Array!Front(da_seq) /\ UNCHANGED <<da_block, da_capacity>>
    BY <1>4 DEF Array!DaPop
  <2>2. da_size \in Nat /\ Len(da_seq) = da_size /\ da_seq \in Seq(Array!Elements)
    BY DEF Array!ArrayInv
  <2>3. da_seq' = SubSeq(da_seq, 1, da_size - 1)
    BY <2>1, <2>2 DEF Array!Front
  <2>4. /\ da_seq' \in Seq(Array!Elements) /\ Len(da_seq') = da_size - 1
        /\ \A i \in 1..da_size - 1 : da_seq'[i] = da_seq[i]
    BY <2>1, <2>2, <2>3, SubSeqProperties
  <2> QED BY <2>1, <2>2, <2>4 DEF Array!ArrayInv
<1>5. ASSUME Array!DaClear \/ Array!DaDetach PROVE Array!ArrayInv'
  <2>1. da_block' = Array!Block(0) /\ da_capacity' = 0 /\ da_size' = 0 /\ da_seq' = <<>>
    BY <1>5 DEF Array!DaClear, Array!DaDetach
  <2>2. <<>> \in Seq(Array!Elements) /\ Len(<<>>) = 0
    OBVIOUS
  <2>3. da_block' \in [0..0 - 1 -> Array!Elements]
    BY <2>1 DEF Array!Block, Array!Elements
  <2> QED BY <2>1, <2>2, <2>3 DEF Array!ArrayInv
<1>6. ASSUME Array!DaReverse PROVE Array!ArrayInv'
  BY <1>6, ReverseStep
<1>7. CASE UNCHANGED Array!vars
  BY <1>7 DEF Array!vars, Array!ArrayInv
<1> QED BY <1>1, <1>2, <1>3, <1>4, <1>5, <1>6, <1>7 DEF Array!Next

-----------------------------------------------------------------------------
(***************************************************************************)
(* Proofs about effective_access.c, get_named_acl_entry.c, acl_view.c and  *)
(* imp_chattr.c, for any set of permissions and any files.                 *)
(***************************************************************************)

Access ==
  INSTANCE FileAccess WITH
    Files <- GivenFiles,
    question <- x1, answer <- x2

fa_question == x1
fa_answer == x2

USE DEF fa_question, fa_answer

\* Before the program has run there is no answer.
LEMMA AccessBegins == Access!Init => Access!AccessInv
BY DEF Access!Init, Access!AccessInv, Access!AnswersAreRight

\* effective_access.c answers as the kernel would, but for what line 78 confuses.
LEMMA EffectiveStep == ASSUME Access!EffectiveAccess PROVE Access!AnswersAreRight'
<1> DEFINE q == fa_question
<1>1. q.tool = "effective_access" /\ q' = q
  BY DEF Access!EffectiveAccess
<1>2. /\ fa_answer' = <<0>> <=> /\ ~(q.flags = {} /\ ~q.exist) /\ q.found
                                /\ ~q.exist /\ q.flags \subseteq Access!Class(q)
      /\ fa_answer' = <<1>> <=> q.found /\ q.exist
  BY DEF Access!EffectiveAccess, Access!Failed
<1>3. ASSUME ~q.exist, q.flags # {}
      PROVE  ~(fa_answer' = <<0>> <=> Access!RightAnswer(q))
               <=> /\ q.found /\ Access!TakenForOther(q)
                   /\ (q.flags \subseteq q.mode.group) # (q.flags \subseteq q.mode.other)
  <2>1. fa_answer' = <<0>> <=> q.found /\ q.flags \subseteq Access!Class(q)
    BY <1>2, <1>3
  <2>2. CASE Access!TakenForOther(q)
    <3>1. Access!Class(q) = q.mode.other /\ Access!Granted(q) = q.mode.group
      BY <2>2 DEF Access!TakenForOther, Access!Class, Access!Granted
    <3> QED BY <2>1, <2>2, <3>1 DEF Access!RightAnswer
  <2>3. CASE ~Access!TakenForOther(q)
    <3>1. Access!Class(q) = Access!Granted(q)
      BY <2>3 DEF Access!TakenForOther, Access!Class, Access!Granted
    <3> QED BY <2>1, <2>3, <3>1 DEF Access!RightAnswer
  <2> QED BY <2>2, <2>3
<1>4. Access!ModeAnswered'
  BY <1>1, <1>2, <1>3 DEF Access!ModeAnswered, Access!RightAnswer, Access!Granted,
    Access!TakenForOther
<1> QED BY <1>1, <1>4 DEF Access!AnswersAreRight

\* Entries that are not there leave no line.
LEMMA NoLine == \A s : <<>> \o <<s>> = <<s>> /\ <<s>> \o <<>> = <<s>> /\ <<>> \o <<>> = <<>>
OBVIOUS

\* The only line is that of the entry that decides.
LEMMA FirstLine ==
  ASSUME NEW q, q.id \in 1..3, q.opt \in {"u", "g"}
  PROVE  Access!Lines(q.acl, q.opt, q.id)[1][2] = Access!AclGranted(q)
<1> DEFINE acl == q.acl
           fileOwner == q.opt = "u" /\ q.id = 1
           groupOwner == q.opt = "g" /\ q.id = 1
           user  == q.opt = "u" /\ q.id = 2 /\ acl.user # Access!None
           group == q.opt = "g" /\ q.id = 2 /\ acl.group # Access!None
           all == Access!Lines(acl, q.opt, q.id)
           L(there, tag, perms) == Access!Line(there, tag, perms)
<1>1. all = Access!Line(fileOwner, "ACL_USER_OBJ", acl.user_obj)
            \o Access!Line(user, "ACL_USER", Access!Effective(acl, acl.user))
            \o Access!Line(groupOwner, "ACL_GROUP_OBJ", Access!Effective(acl, acl.group_obj))
            \o Access!Line(group, "ACL_GROUP", Access!Effective(acl, acl.group))
            \o Access!Line(~(fileOwner \/ groupOwner \/ user \/ group), "ACL_OTHER", acl.other)
  BY DEF Access!Lines
<1>2. \A tag, perms : Access!Line(FALSE, tag, perms) = <<>> /\ Access!Line(TRUE, tag, perms) = <<<<tag, perms>>>>
  BY DEF Access!Line
<1>3. CASE fileOwner
  <2>1. /\ fileOwner = TRUE /\ user = FALSE /\ groupOwner = FALSE /\ group = FALSE
        /\ (~(fileOwner \/ groupOwner \/ user \/ group)) = FALSE
    BY <1>3
  <2>2. all = <<<<"ACL_USER_OBJ", acl.user_obj>>>>
    <3> HIDE DEF fileOwner, groupOwner, user, group, acl, all
    <3> QED BY <1>1, <1>2, <2>1, NoLine
  <2>3. Access!AclGranted(q) = acl.user_obj
    BY <1>3 DEF Access!AclGranted
  <2> QED BY <2>2, <2>3
<1>4. CASE user
  <2>1. /\ fileOwner = FALSE /\ user = TRUE /\ groupOwner = FALSE /\ group = FALSE
        /\ (~(fileOwner \/ groupOwner \/ user \/ group)) = FALSE
    BY <1>4
  <2>2. all = <<<<"ACL_USER", Access!Effective(acl, acl.user)>>>>
    <3> HIDE DEF fileOwner, groupOwner, user, group, acl, all
    <3> QED BY <1>1, <1>2, <2>1, NoLine
  <2>3. Access!AclGranted(q) = Access!Effective(acl, acl.user)
    BY <1>4 DEF Access!AclGranted, Access!Effective
  <2> QED BY <2>2, <2>3
<1>5. CASE groupOwner
  <2>1. /\ fileOwner = FALSE /\ user = FALSE /\ groupOwner = TRUE /\ group = FALSE
        /\ (~(fileOwner \/ groupOwner \/ user \/ group)) = FALSE
    BY <1>5
  <2>2. all = <<<<"ACL_GROUP_OBJ", Access!Effective(acl, acl.group_obj)>>>>
    <3> HIDE DEF fileOwner, groupOwner, user, group, acl, all
    <3> QED BY <1>1, <1>2, <2>1, NoLine
  <2>3. Access!AclGranted(q) = Access!Effective(acl, acl.group_obj)
    BY <1>5 DEF Access!AclGranted, Access!Effective
  <2> QED BY <2>2, <2>3
<1>6. CASE group
  <2>1. /\ fileOwner = FALSE /\ user = FALSE /\ groupOwner = FALSE /\ group = TRUE
        /\ (~(fileOwner \/ groupOwner \/ user \/ group)) = FALSE
    BY <1>6
  <2>2. all = <<<<"ACL_GROUP", Access!Effective(acl, acl.group)>>>>
    <3> HIDE DEF fileOwner, groupOwner, user, group, acl, all
    <3> QED BY <1>1, <1>2, <2>1, NoLine
  <2>3. Access!AclGranted(q) = Access!Effective(acl, acl.group)
    BY <1>6 DEF Access!AclGranted, Access!Effective
  <2> QED BY <2>2, <2>3
<1>7. CASE ~(fileOwner \/ groupOwner \/ user \/ group)
  <2>1. /\ fileOwner = FALSE /\ user = FALSE /\ groupOwner = FALSE /\ group = FALSE
        /\ (~(fileOwner \/ groupOwner \/ user \/ group)) = TRUE
    BY <1>7
  <2>2. all = <<<<"ACL_OTHER", acl.other>>>>
    <3> HIDE DEF fileOwner, groupOwner, user, group, acl, all
    <3> QED BY <1>1, <1>2, <2>1, NoLine
  <2>3. Access!AclGranted(q) = acl.other
    BY <1>7 DEF Access!AclGranted
  <2> QED BY <2>2, <2>3
<1> QED BY <1>3, <1>4, <1>5, <1>6, <1>7

LEMMA NamedStep == ASSUME Access!AccessInv, Access!GetNamedAclEntry PROVE Access!AnswersAreRight'
<1>1. /\ fa_question.tool = "get_named_acl_entry" /\ fa_question' = fa_question
      /\ fa_answer' = Access!Lines(fa_question.acl, fa_question.opt, fa_question.id)
  BY DEF Access!GetNamedAclEntry
<1>2. fa_question.id \in 1..3 /\ fa_question.opt \in {"u", "g"}
  BY <1>1 DEF Access!AccessInv, Access!ModeQuestions, Access!AclQuestions,
    Access!ChattrQuestions
<1>3. fa_answer'[1][2] = Access!AclGranted(fa_question)
  BY <1>1, <1>2, FirstLine
<1> QED BY <1>1, <1>3 DEF Access!AnswersAreRight, Access!AclAnswered, Access!AclGranted

LEMMA ChattrStep == ASSUME Access!AccessInv, Access!Chattr PROVE Access!AnswersAreRight'
<1>1. fa_question.tool = "imp_chattr" /\ fa_question' = fa_question
  BY DEF Access!Chattr
<1>2. fa_question.op \in {"+", "-", "="}
  BY <1>1 DEF Access!AccessInv, Access!ModeQuestions, Access!AclQuestions,
    Access!ChattrQuestions
<1>3. PICK junk \in SUBSET Bits :
        fa_answer' = <<Access!AllWell(fa_question),
          [f \in GivenFiles |->
             CASE fa_question.fault[f] \in {"open", "set", "get and set"} -> fa_question.old[f]
               [] fa_question.fault[f] = "get" -> Access!Changed(fa_question.op, junk, fa_question.flags)
               [] OTHER -> Access!Changed(fa_question.op, fa_question.old[f], fa_question.flags)]>>
  BY DEF Access!Chattr
<1>4. ASSUME Access!AllWell(fa_question), NEW f \in GivenFiles
      PROVE  fa_answer'[2][f] = Access!Changed(fa_question.op, fa_question.old[f], fa_question.flags)
  BY <1>3, <1>4 DEF Access!AllWell
<1>5. fa_answer'[1] = Access!AllWell(fa_question)
  BY <1>3
<1>6. ASSUME Access!AllWell(fa_question), NEW f \in GivenFiles
      PROVE  CASE fa_question.op = "+" -> fa_answer'[2][f] = fa_question.old[f] \cup fa_question.flags
               [] fa_question.op = "-" -> fa_answer'[2][f] \cap fa_question.flags = {}
               [] fa_question.op = "=" -> fa_answer'[2][f] = fa_question.flags
  BY <1>2, <1>4, <1>6 DEF Access!Changed
<1> QED BY <1>1, <1>5, <1>6 DEF Access!AnswersAreRight, Access!FlagsChanged

LEMMA AccessStep == ASSUME Access!AccessInv, [Access!Next]_Access!vars PROVE Access!AccessInv'
<1>1. CASE UNCHANGED Access!vars
  BY <1>1 DEF Access!vars, Access!AccessInv, Access!AnswersAreRight, Access!ModeAnswered,
    Access!AclAnswered, Access!FlagsChanged, Access!RightAnswer, Access!TakenForOther,
    Access!AclGranted, Access!Granted
<1>2. CASE Access!Next
  <2>1. fa_question' = fa_question
    BY <1>2 DEF Access!Next, Access!EffectiveAccess, Access!GetNamedAclEntry,
      Access!AclView, Access!Chattr
  <2>2. Access!AclView => Access!AnswersAreRight'
    BY DEF Access!AclView, Access!AnswersAreRight
  <2>3. Access!AnswersAreRight'
    BY <1>2, <2>2, EffectiveStep, NamedStep, ChattrStep DEF Access!Next
  <2> QED BY <2>1, <2>3 DEF Access!AccessInv, Access!ModeQuestions, Access!AclQuestions,
    Access!ChattrQuestions
<1> QED BY <1>1, <1>2

-----------------------------------------------------------------------------
\* Files of a copy: bytes, newlines and holes in any order.
CopySources == UNION {[1..n -> {"x", "newline", "hole"}] : n \in 0..3}
                 \cup {s \o t : s, t \in [1..2 -> {"x", "hole"}]}
                 \cup {<<"x", "newline", "x", "newline">>, <<"newline", "newline", "x", "x">>}

\* /a/b; links /la -> a, /lf -> f/x, /a/l1 -> ../f, /a/d -> none, /a/lb -> b/. and
\* /a/b/l2 -> ../l1; files /f and /a/b/g.
PathParent == <<1, 1, 2>>
PathEntries == <<{<<"a", 2>>, <<"f", 10>>, <<"la", 21>>, <<"lf", 26>>},
                 {<<"b", 3>>, <<"l1", 22>>, <<"d", 23>>, <<"lb", 24>>},
                 {<<"l2", 25>>, <<"g", 11>>}>>
PathLinks == (21 :> <<"a">>) @@ (22 :> <<"..", "f">>) @@ (23 :> <<"none">>)
             @@ (24 :> <<"b", ".">>) @@ (25 :> <<"..", "l1">>) @@ (26 :> <<"f", "x">>)
PathQuestions ==
  {<<"/", "la", "lb">>, <<"l2">>, <<"/", "la", "lb", "l2">>, <<"/", "a", "l1">>,
   <<"..", "la", "b", "g">>, <<"d">>, <<"lb", "..", "d">>, <<"l1">>, <<"/", "lf">>,
   <<"f">>, <<"/", "f", "x">>}

WatchParent == <<1, 1, 2>>
WalkParent == <<1, 1, 2, 2, 1, 3>>
\* A pid may be lower than that of the parent.
PidParent == <<0, 4, 2, 1>>

\* What better_script.c reads at a time.
ReplayPieces == UNION {[1..n -> {"x", "n", "backslash", "newline"}] : n \in 1..2}

-----------------------------------------------------------------------------
Copy ==
  INSTANCE FileCopy WITH
    Sources <- CopySources, MaxRoom <- 3, BufSize <- 2,
    tool <- x1, src <- x2, arg <- x3, pos <- x4, out <- x5, room <- x6,
    shown <- x7, pc <- x8, ret <- x9

Paths ==
  INSTANCE PathNames WITH
    Dirs <- 1..3, Parent <- PathParent, Entries <- PathEntries,
    Links <- PathLinks, Questions <- PathQuestions,
    tool <- x1, home <- x2, asked <- x3, cwd <- x4, path <- x5, homes <- x6,
    pc <- x7, result <- x8

Watch ==
  INSTANCE TreeWatch WITH
    Dirs <- 1..3, Parent <- WatchParent, MaxQueue <- 2, MaxChanges <- 4,
    tool <- x1, exist <- x2, watches <- x3, queue <- x4, strangers <- x5,
    buf <- x6, todo <- x7, pc <- x8, log <- x9, shown <- x10

Walk ==
  INSTANCE TreeWalk WITH
    Nodes <- 1..6, Dirs <- {1, 2, 3, 5}, Unreadable <- {5}, MaxGone <- 2,
    Parent <- WalkParent,
    tool <- x1, exist <- x2, stack <- x3, seen <- x4, errno <- x5, cut <- x6,
    pc <- x7

Scan ==
  INSTANCE ProcScan WITH
    Pids <- 1..4, Wanted <- {2, 4}, FirstParent <- PidParent, MaxFds <- 5,
    tool <- x1, alive <- x2, parent <- x3, todo <- x4, entry <- x5, list <- x6,
    fds <- x7, pc <- x8, lines <- x9

Replay ==
  INSTANCE ScriptReplay WITH
    Pieces <- ReplayPieces, MaxPieces <- 2,
    session <- x1, timed <- x2, string <- x3, shown <- x4, before <- x5,
    pc <- x6

-----------------------------------------------------------------------------
Units ==
  {"binary_tree", "line_buffer", "dynamic_array", "file_access", "file_copy",
   "path_names", "tree_watch", "tree_walk", "proc_scan", "script_replay"}

\* Slots from the n-th on are not used.
Spare(n) ==
  /\ IF n > 1 THEN TRUE ELSE x1 = 0
  /\ IF n > 2 THEN TRUE ELSE x2 = 0
  /\ IF n > 3 THEN TRUE ELSE x3 = 0
  /\ IF n > 4 THEN TRUE ELSE x4 = 0
  /\ IF n > 5 THEN TRUE ELSE x5 = 0
  /\ IF n > 6 THEN TRUE ELSE x6 = 0
  /\ IF n > 7 THEN TRUE ELSE x7 = 0
  /\ IF n > 8 THEN TRUE ELSE x8 = 0
  /\ IF n > 9 THEN TRUE ELSE x9 = 0
  /\ IF n > 10 THEN TRUE ELSE x10 = 0
  /\ IF n > 11 THEN TRUE ELSE x11 = 0

MCInit ==
  /\ unit \in Units /\ Init
  /\ CASE unit = "binary_tree" -> Spare(1)
       [] unit = "line_buffer" -> Lines!Init /\ Spare(6)
       [] unit = "dynamic_array" -> Array!Init /\ Spare(6)
       [] unit = "file_access" -> Access!Init /\ Spare(3)
       [] unit = "file_copy" -> Copy!Init /\ Spare(10)
       [] unit = "path_names" -> Paths!Init /\ Spare(9)
       [] unit = "tree_watch" -> Watch!Init /\ Spare(11)
       [] unit = "tree_walk" -> Walk!Init /\ Spare(8)
       [] unit = "proc_scan" -> Scan!Init /\ Spare(10)
       [] unit = "script_replay" -> Replay!Init /\ Spare(7)

\* Unit u takes the step A, which leaves the slots in spare alone.
Of(u, A, spare) == unit = u /\ A /\ UNCHANGED <<unit, vars, spare>>

MCNext ==
  \/ /\ unit = "binary_tree" /\ Next
     /\ UNCHANGED <<unit, x1, x2, x3, x4, x5, x6, x7, x8, x9, x10, x11>>
  \/ Of("line_buffer", Lines!Next, <<x6, x7, x8, x9, x10, x11>>)
  \/ Of("dynamic_array", Array!Next, <<x6, x7, x8, x9, x10, x11>>)
  \/ Of("file_access", Access!Next, <<x3, x4, x5, x6, x7, x8, x9, x10, x11>>)
  \/ Of("file_copy", Copy!Next, <<x10, x11>>)
  \/ Of("path_names", Paths!Next, <<x9, x10, x11>>)
  \/ Of("tree_watch", Watch!Next, <<x11>>)
  \/ Of("tree_walk", Walk!Next, <<x8, x9, x10, x11>>)
  \/ Of("proc_scan", Scan!Next, <<x10, x11>>)
  \/ Of("script_replay", Replay!Next, <<x7, x8, x9, x10, x11>>)

MCSpec == MCInit /\ [][MCNext]_allVars

\* The addresses of nodes are interchangeable.
Symmetry == Permutations(Nodes)

-----------------------------------------------------------------------------
\* lib/read_line_buf.c returns the stream line by line, however the bytes arrive,
\* and does not write behind its buffers if the lines fit.
LinesAreReturned ==
  unit = "line_buffer" => Lines!LinesInOrder /\ Lines!StaysInBuffer

\* lib/dynamic_array.c holds what was pushed and not popped, through every growth.
ArrayIsSequence == unit = "dynamic_array" => Array!ArrayIsSequence

\* effective_access.c, get_named_acl_entry.c and imp_chattr.c give the answer that the
\* rules for permissions give; effective_access.c is wrong where line 78 takes a member
\* of the file's group for a stranger and that makes a difference, and nowhere else.
AnswersAreRight == unit = "file_access" => Access!AnswersAreRight

\* Copies, vectors, last lines and replayed sessions have every byte of their source
\* once and in order, however reads and writes are cut.
BytesAreKept == /\ unit = "file_copy" => Copy!CopiesAreExact
                /\ unit = "script_replay" => Replay!ReplayIsExact

\* imp_getcwd.c and imp_realpath.c return a path that leads where it should.
PathsResolve == unit = "path_names" => Paths!PathsResolve


-----------------------------------------------------------------------------
(***************************************************************************)
(* The four units proved about above, for any values of their constants.   *)
(***************************************************************************)
LibraryInv ==
  /\ TreeInv
  /\ unit = "line_buffer" => Lines!LinesInv
  /\ unit = "dynamic_array" => Array!ArrayInv
  /\ unit = "file_access" => Access!AccessInv

\* The unit stays the one it was, and takes its own steps.
LEMMA OneUnitRuns ==
  ASSUME [MCNext]_allVars
  PROVE  /\ unit' = unit /\ [Next]_vars
         /\ unit = "line_buffer" => [Lines!Next]_Lines!vars
         /\ unit = "dynamic_array" => [Array!Next]_Array!vars
         /\ unit = "file_access" => [Access!Next]_Access!vars
<1>1. CASE MCNext
  BY <1>1 DEF MCNext, Of, vars
<1>2. CASE UNCHANGED allVars
  BY <1>2 DEF allVars, vars, Lines!vars, Array!vars, Access!vars
<1> QED BY <1>1, <1>2

\* The unit that was chosen starts as it does.
LEMMA UnitsBegin == MCInit => LibraryInv
<1> SUFFICES ASSUME MCInit PROVE LibraryInv
  OBVIOUS
<1>1. /\ unit = "line_buffer" => Lines!Init
      /\ unit = "dynamic_array" => Array!Init
      /\ unit = "file_access" => Access!Init
  BY DEF MCInit
<1>2. unit = "line_buffer" => Lines!LinesInv
  BY <1>1, LinesBegin
<1>3. unit = "dynamic_array" => Array!ArrayInv
  BY <1>1, ArrayBegins
<1>4. unit = "file_access" => Access!AccessInv
  BY <1>1, AccessBegins
<1>5. TreeInv
  BY InitIsTree DEF MCInit
<1> QED BY <1>2, <1>3, <1>4, <1>5 DEF LibraryInv

\* No step of any unit disturbs the invariants.
LEMMA UnitsStep == ASSUME LibraryInv, [MCNext]_allVars PROVE LibraryInv'
<1>1. unit' = unit
  BY OneUnitRuns
<1>2. unit = "line_buffer" => Lines!LinesInv'
  BY OneUnitRuns, LinesStep DEF LibraryInv
<1>3. unit = "dynamic_array" => Array!ArrayInv'
  BY OneUnitRuns, ArrayStep DEF LibraryInv
<1>4. unit = "file_access" => Access!AccessInv'
  BY OneUnitRuns, AccessStep DEF LibraryInv
<1>5. TreeInv'
  BY OneUnitRuns, NextKeepsTree DEF LibraryInv
<1> QED BY <1>1, <1>2, <1>3, <1>4, <1>5 DEF LibraryInv

\* The invariants hold in every reachable state.
LEMMA LibraryInvariance == MCSpec => []LibraryInv
BY UnitsBegin, UnitsStep, PTL DEF MCSpec

\* lib/binary_tree.c: after any calls exactly the nodes that are reached from the root
\* are allocated, each hangs in one place, and a search for its key finds it.
THEOREM TreeStaysWellFormed == MCSpec => []WellFormed
<1>1. LibraryInv => WellFormed
  BY TreeIsWellFormed DEF LibraryInv
<1> QED BY <1>1, LibraryInvariance, PTL

\* lib/binary_tree.c: each call adds, finds or deletes the key it was given in the map
\* that the tree stands for, and leaves the other keys and values as they were.
THEOREM TreeIsAMap == MCSpec => IsMap
<1>1. MCInit => Map!MInit
  BY InitIsMap DEF MCInit
<1>2. LibraryInv /\ LibraryInv' /\ [MCNext]_allVars => [Map!MNext]_<<MapOfTree, last>>
  BY OneUnitRuns, EachCallIsOnMap DEF LibraryInv
<1> QED BY <1>1, <1>2, LibraryInvariance, PTL DEF MCSpec, IsMap, Map!MSpec

\* lib/read_line_buf.c: whatever pieces read() returns, the calls return the stream
\* line by line, what is left of it is held, and lines that fit overrun no buffer.
THEOREM StreamIsReturned == MCSpec => []LinesAreReturned
<1>1. LibraryInv => LinesAreReturned
  BY LinesInvMeans DEF LibraryInv, LinesAreReturned
<1> QED BY <1>1, LibraryInvariance, PTL

\* lib/dynamic_array.c: after any calls the block holds what was pushed and not popped,
\* in order, and no element lies behind it.
THEOREM ArrayHoldsAll == MCSpec => []ArrayIsSequence
<1>1. LibraryInv => ArrayIsSequence
  BY ArrayInvMeans DEF LibraryInv, ArrayIsSequence
<1> QED BY <1>1, LibraryInvariance, PTL

\* effective_access.c, get_named_acl_entry.c, imp_chattr.c: for every mode, list, set of
\* flags and identity the answer is the one the rules for permissions give, except that
\* effective_access.c errs (line 78) for exactly the members of the group it takes for
\* strangers where the permissions of the two differ in what was asked for.
THEOREM RulesAreKept == MCSpec => []AnswersAreRight
<1>1. LibraryInv => AnswersAreRight
  BY DEF LibraryInv, AnswersAreRight, Access!AccessInv
<1> QED BY <1>1, LibraryInvariance, PTL
=============================================================================
