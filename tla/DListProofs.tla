---------------------------- MODULE DListProofs ----------------------------
(***************************************************************************)
(* The macros of list.h keep the pointers of a list together, and do to    *)
(* the sequence it stands for what their names say, for every number of    *)
(* nodes and every kind of owner that DListAssumption admits.              *)
(***************************************************************************)
EXTENDS DList, Foundations

Ordering == [1 .. num_items -> Node]

\* s with n before its k-th node, and s without its k-th node.
Ins(s, n, k) ==
  [i \in 1 .. num_items + 1 |-> IF i < k THEN s[i] ELSE IF i = k THEN n ELSE s[i - 1]]
Del(s, k) == [i \in 1 .. num_items - 1 |-> IF i < k THEN s[i] ELSE s[i + 1]]

\* What an insertion before the k-th node does to the pointers, but for current.
Inserted(s, n, k) ==
  /\ num_items' = num_items + 1
  /\ head' = (IF k = 1 THEN n ELSE head)
  /\ tail' = (IF k = num_items + 1 THEN n ELSE tail)
  /\ next' \in [Node -> Pointer] /\ prev' \in [Node -> Pointer]
  /\ next'[n] = IF k = num_items + 1 THEN NULL ELSE s[k]
  /\ prev'[n] = IF k = 1 THEN NULL ELSE s[k - 1]
  /\ \A i \in 1 .. num_items :
       /\ next'[s[i]] = IF i = k - 1 THEN n ELSE next[s[i]]
       /\ prev'[s[i]] = IF i = k THEN n ELSE prev[s[i]]

\* What a removal of the k-th node does to them.
Removed(s, k) ==
  /\ num_items' = num_items - 1
  /\ head' = (IF num_items = 1 THEN NULL ELSE IF k = 1 THEN s[2] ELSE head)
  /\ tail' = (IF num_items = 1 THEN NULL ELSE IF k = num_items THEN s[num_items - 1] ELSE tail)
  /\ next' \in [Node -> Pointer] /\ prev' \in [Node -> Pointer]
  /\ \A i \in 1 .. num_items : i # k =>
       /\ next'[s[i]] = IF i = k - 1 THEN next[s[k]] ELSE next[s[i]]
       /\ prev'[s[i]] = IF i = k + 1 THEN prev[s[k]] ELSE prev[s[i]]

\* A zeroed node is in no list: the only node of a list is its head, and any
\* other has a neighbour.
LEMMA FreshOutside ==
  ASSUME TypeOK, NEW s \in Ordering, Ends(s), Links(s), NEW n \in Node, Fresh(n)
  PROVE  \A i \in 1 .. num_items : s[i] # n
<1> SUFFICES ASSUME NEW i \in 1 .. num_items, s[i] = n PROVE FALSE
  OBVIOUS
<1> num_items \in Nat
  BY DEF TypeOK
<1>1. CASE i < num_items
  <2>1. next[n] = s[i + 1] /\ s[i + 1] \in Node
    BY <1>1 DEF Links, Ordering
  <2> QED
    BY <2>1, DListAssumption DEF Fresh
<1>2. CASE i = num_items /\ i > 1
  <2>1. i - 1 \in 1 .. num_items - 1 /\ (i - 1) + 1 = i
    BY <1>2
  <2>2. prev[n] = s[i - 1] /\ s[i - 1] \in Node
    BY <2>1 DEF Links, Ordering
  <2> QED
    BY <2>2, DListAssumption DEF Fresh
<1>3. CASE i = 1
  BY <1>3 DEF Ends, Fresh
<1> QED
  BY <1>1, <1>2, <1>3

\* An insertion leaves the pointers of the longer list.
LEMMA InsertLinks ==
  ASSUME TypeOK, NEW s \in Ordering, Ends(s), Links(s), num_items > 0,
         NEW n \in Node, NEW k \in 1 .. num_items + 1,
         \A i \in 1 .. num_items : s[i] # n,
         Inserted(s, n, k), NEW t, t = Ins(s, n, k)
  PROVE  t \in Ordering' /\ Ends(t)' /\ Links(t)'
<1> DEFINE m == num_items
<1>0. m \in Nat /\ num_items' = m + 1 /\ num_items' # 0
  BY DEF TypeOK, Inserted
<1>1. t \in [1 .. m + 1 -> Node]
  BY <1>0 DEF Ins, Ordering
<1>2. t[k] = n
  BY <1>0 DEF Ins
<1>3. \A i \in 1 .. m + 1 : i < k => t[i] = s[i] /\ i \in 1 .. m
  BY <1>0 DEF Ins
<1>4. \A i \in 1 .. m + 1 : i > k => t[i] = s[i - 1] /\ i - 1 \in 1 .. m
  BY <1>0 DEF Ins
<1>5. \A i, j \in 1 .. m + 1 : t[i] = t[j] => i = j
  BY <1>0, <1>2, <1>3, <1>4 DEF Links
<1>6. ASSUME NEW i \in 1 .. m PROVE next'[t[i]] = t[i + 1]
  <2>1. CASE i + 1 < k
    BY <2>1, <1>0, <1>3 DEF Inserted, Links
  <2>2. CASE i + 1 = k
    BY <2>2, <1>0, <1>2, <1>3 DEF Inserted
  <2>3. CASE i = k
    BY <2>3, <1>0, <1>2, <1>4 DEF Inserted
  <2>4. CASE i > k
    <3>1. t[i] = s[i - 1] /\ t[i + 1] = s[i] /\ i - 1 \in 1 .. m - 1
      BY <2>4, <1>0, <1>4
    <3> QED
      BY <3>1, <2>4, <1>0 DEF Inserted, Links
  <2> QED
    BY <2>1, <2>2, <2>3, <2>4, <1>0
<1>7. ASSUME NEW i \in 1 .. m PROVE prev'[t[i + 1]] = t[i]
  <2>1. CASE i + 1 < k
    BY <2>1, <1>0, <1>3 DEF Inserted, Links
  <2>2. CASE i + 1 = k
    BY <2>2, <1>0, <1>2, <1>3 DEF Inserted
  <2>3. CASE i = k
    BY <2>3, <1>0, <1>2, <1>4 DEF Inserted
  <2>4. CASE i > k
    <3>1. t[i] = s[i - 1] /\ t[i + 1] = s[i] /\ i - 1 \in 1 .. m - 1
      BY <2>4, <1>0, <1>4
    <3> QED
      BY <3>1, <2>4, <1>0 DEF Inserted, Links
  <2> QED
    BY <2>1, <2>2, <2>3, <2>4, <1>0
<1>8. head' = t[1] /\ prev'[t[1]] = NULL
  <2>1. CASE k = 1
    BY <2>1, <1>0, <1>2 DEF Inserted
  <2>2. CASE k > 1
    <3>1. t[1] = s[1]
      BY <2>2, <1>0, <1>3
    <3> QED
      BY <3>1, <2>2, <1>0 DEF Inserted, Ends
  <2> QED
    BY <2>1, <2>2
<1>9. tail' = t[m + 1] /\ next'[t[m + 1]] = NULL
  <2>1. CASE k = m + 1
    BY <2>1, <1>0, <1>2 DEF Inserted
  <2>2. CASE k < m + 1
    <3>1. t[m + 1] = s[m]
      BY <2>2, <1>0, <1>4
    <3> QED
      BY <3>1, <2>2, <1>0 DEF Inserted, Ends
  <2> QED
    BY <2>1, <2>2, <1>0
<1>10. Ends(t)'
  BY <1>0, <1>8, <1>9 DEF Ends
<1>11. Links(t)'
  BY <1>0, <1>5, <1>6, <1>7 DEF Links
<1>12. t \in Ordering'
  BY <1>0, <1>1 DEF Ordering
<1> QED
  BY <1>10, <1>11, <1>12

\* A removal leaves the pointers of the shorter list.
LEMMA RemoveLinks ==
  ASSUME TypeOK, NEW s \in Ordering, Ends(s), Links(s), NEW k \in 1 .. num_items,
         Removed(s, k), NEW t, t = Del(s, k)
  PROVE  t \in Ordering' /\ Ends(t)' /\ Links(t)'
<1> DEFINE m == num_items
<1>0. m \in Nat /\ m > 0 /\ num_items' = m - 1 /\ m - 1 \in Nat
  BY DEF TypeOK, Removed
<1>1. t \in [1 .. m - 1 -> Node]
  BY <1>0 DEF Del, Ordering
<1>2. \A i \in 1 .. m - 1 : i < k => t[i] = s[i] /\ i \in 1 .. m
  BY <1>0 DEF Del
<1>3. \A i \in 1 .. m - 1 : i >= k => t[i] = s[i + 1] /\ i + 1 \in 1 .. m
  BY <1>0 DEF Del
<1>4. \A i, j \in 1 .. m - 1 : t[i] = t[j] => i = j
  BY <1>0, <1>2, <1>3 DEF Links
<1>5. ASSUME NEW i \in 1 .. m - 2 PROVE next'[t[i]] = t[i + 1] /\ prev'[t[i + 1]] = t[i]
  <2> USE <1>0
  <2>1. CASE i + 1 < k
    <3>1. t[i] = s[i] /\ t[i + 1] = s[i + 1] /\ i \in 1 .. m - 1
      BY <2>1, <1>2
    <3> QED
      BY <3>1, <2>1 DEF Removed, Links
  <2>2. CASE i + 1 = k
    <3>1. t[i] = s[i] /\ t[i + 1] = s[k + 1]
      BY <2>2, <1>2, <1>3
    <3>2. next[s[k]] = s[k + 1] /\ prev[s[k]] = s[i]
      BY <2>2 DEF Links
    <3> QED
      BY <3>1, <3>2, <2>2 DEF Removed
  <2>3. CASE i >= k
    <3>1. t[i] = s[i + 1] /\ t[i + 1] = s[i + 2]
      BY <2>3, <1>3
    <3>2. next[s[i + 1]] = s[i + 2] /\ prev[s[i + 2]] = s[i + 1]
      BY DEF Links
    <3> QED
      BY <3>1, <3>2, <2>3 DEF Removed
  <2> QED
    BY <2>1, <2>2, <2>3
<1>6. m > 1 => head' = t[1] /\ prev'[t[1]] = NULL
  <2> SUFFICES ASSUME m > 1 PROVE head' = t[1] /\ prev'[t[1]] = NULL
    OBVIOUS
  <2>1. CASE k = 1
    <3>1. t[1] = s[2]
      BY <2>1, <1>0, <1>3
    <3> QED
      BY <3>1, <2>1, <1>0 DEF Removed, Ends
  <2>2. CASE k > 1
    <3>1. t[1] = s[1]
      BY <2>2, <1>0, <1>2
    <3> QED
      BY <3>1, <2>2, <1>0 DEF Removed, Ends
  <2> QED
    BY <2>1, <2>2
<1>7. m > 1 => tail' = t[m - 1] /\ next'[t[m - 1]] = NULL
  <2> SUFFICES ASSUME m > 1 PROVE tail' = t[m - 1] /\ next'[t[m - 1]] = NULL
    OBVIOUS
  <2>1. CASE k = m
    <3>1. t[m - 1] = s[m - 1]
      BY <2>1, <1>0, <1>2
    <3> QED
      BY <3>1, <2>1, <1>0 DEF Removed, Ends
  <2>2. CASE k < m
    <3>1. t[m - 1] = s[m]
      BY <2>2, <1>0, <1>3
    <3> QED
      BY <3>1, <2>2, <1>0 DEF Removed, Ends
  <2> QED
    BY <2>1, <2>2, <1>0
<1>8. Ends(t)'
  BY <1>0, <1>6, <1>7 DEF Ends, Removed
<1>9. Links(t)'
  BY <1>0, <1>4, <1>5 DEF Links
<1> QED
  BY <1>0, <1>1, <1>8, <1>9 DEF Ordering

\* The list is empty for all pointers at once, and the neighbours of the
\* current node are the pointers' targets.
LEMMA Occupied ==
  ASSUME TypeOK, NEW s \in Ordering, Represents(s)
  PROVE  /\ num_items = 0 <=> head = NULL
         /\ num_items = 0 <=> tail = NULL
         /\ num_items = 0 <=> current = NULL
         /\ num_items > 0 =>
              /\ head \in Node /\ tail \in Node /\ current \in Node
              /\ at < num_items - 1 => next[current] = s[at + 2] /\ next[current] \in Node
              /\ at > 0 => prev[current] = s[at] /\ prev[current] \in Node
<1>0. num_items \in Nat /\ at \in Nat
  BY DEF TypeOK
<1>1. CASE num_items = 0
  BY <1>1 DEF Represents, Ends, Here
<1>2. CASE num_items > 0
  <2>1. head = s[1] /\ tail = s[num_items] /\ current = s[at + 1] /\ at < num_items
    BY <1>2 DEF Represents, Ends, Here
  <2>2. head \in Node /\ tail \in Node /\ current \in Node
    BY <2>1, <1>0, <1>2 DEF Ordering
  <2>3. ASSUME at < num_items - 1 PROVE next[current] = s[at + 2] /\ s[at + 2] \in Node
    <3>1. at + 1 \in 1 .. num_items - 1 /\ (at + 1) + 1 = at + 2 /\ at + 2 \in 1 .. num_items
      BY <2>3, <1>0
    <3>2. next[s[at + 1]] = s[(at + 1) + 1]
      BY <3>1 DEF Represents, Links
    <3> QED
      BY <3>1, <3>2, <2>1 DEF Ordering
  <2>4. ASSUME at > 0 PROVE prev[current] = s[at] /\ s[at] \in Node
    <3>1. at \in 1 .. num_items - 1 /\ at \in 1 .. num_items
      BY <2>4, <1>0, <2>1
    <3>2. prev[s[at + 1]] = s[at]
      BY <3>1 DEF Represents, Links
    <3> QED
      BY <3>1, <3>2, <2>1 DEF Ordering
  <2> QED
    BY <2>2, <2>3, <2>4, <1>2, DListAssumption
<1> QED
  BY <1>0, <1>1, <1>2

-----------------------------------------------------------------------------
\* The steps w of a walk along the pointers ptr.
Steps(w, first, ptr, m) == w = [k \in 0 .. m - 1 |-> IF k = 0 THEN first ELSE ptr[w[k - 1]]]

\* The walk is chosen among the functions that take these steps.
LEMMA WalkedUnfold ==
  ASSUME NEW first, NEW ptr, NEW m
  PROVE  Walked(first, ptr, m) = CHOOSE w : Steps(w, first, ptr, m)
BY DEF Walked, Steps

\* A walk along pointers that lead from each node of s to the next one.
LEMMA WalkedIs ==
  ASSUME NEW m \in Nat, NEW s, NEW ptr, \A i \in 1 .. m - 1 : ptr[s[i]] = s[i + 1],
         NEW first, m > 0 => first = s[1]
  PROVE  \A k \in 0 .. m - 1 : Walked(first, ptr, m)[k] = s[k + 1]
<1> DEFINE t == [k \in 0 .. m - 1 |-> s[k + 1]]
           w == Walked(first, ptr, m)
<1>1. Steps(t, first, ptr, m)
  <2>1. ASSUME NEW k \in 0 .. m - 1
        PROVE  t[k] = IF k = 0 THEN first ELSE ptr[t[k - 1]]
    <3>1. CASE k = 0
      BY <3>1
    <3>2. CASE k # 0
      <4>1. k \in 1 .. m - 1 /\ k - 1 \in 0 .. m - 1 /\ (k - 1) + 1 = k
        BY <3>2
      <4>2. t[k - 1] = s[k] /\ t[k] = s[k + 1]
        BY <4>1
      <4> QED
        BY <3>2, <4>1, <4>2
    <3> QED
      BY <3>1, <3>2
  <2>2. t = [k \in 0 .. m - 1 |-> t[k]]
    OBVIOUS
  <2> HIDE DEF t
  <2> QED
    BY <2>1, <2>2 DEF Steps
<1> HIDE DEF t
<1>2. Steps(w, first, ptr, m)
  BY <1>1, WalkedUnfold
<1> HIDE DEF w
<1>3. w = [k \in 0 .. m - 1 |-> IF k = 0 THEN first ELSE ptr[w[k - 1]]]
  BY <1>2 DEF Steps
<1>4. \A k \in 0 .. m - 1 : w[k] = s[k + 1]
  <2>1. CASE m = 0
    BY <2>1
  <2>2. CASE m > 0
    <3> DEFINE T == {k \in 0 .. m - 1 : w[k] = s[k + 1]}
    <3>1. 0 \in T
      BY <1>3, <2>2
    <3>2. \A k \in 0 .. (m - 1) - 1 : k \in T => k + 1 \in T
      <4> TAKE k \in 0 .. (m - 1) - 1
      <4> HAVE k \in T
      <4>1. k + 1 \in 1 .. m - 1 /\ k + 1 \in 0 .. m - 1 /\ (k + 1) - 1 = k /\ k + 1 # 0
        OBVIOUS
      <4>2. w[k + 1] = ptr[w[(k + 1) - 1]]
        BY <1>3, <4>1
      <4>3. w[k] = s[k + 1]
        OBVIOUS
      <4>4. ptr[s[k + 1]] = s[(k + 1) + 1]
        BY <4>1
      <4>5. w[k + 1] = s[(k + 1) + 1]
        BY <4>1, <4>2, <4>3, <4>4
      <4> QED
        BY <4>1, <4>5
    <3>3. m - 1 \in Nat
      BY <2>2
    <3>4. \A k \in 0 .. m - 1 : k \in T
      <4> HIDE DEF T
      <4> QED
        BY <3>1, <3>2, <3>3, Induction
    <3> QED
      BY <3>4
  <2> QED
    BY <2>1, <2>2
<1> QED
  BY <1>4 DEF w

\* The pointers of a list of m nodes, those of s.
Chained(s, m, first, last, fwd, bwd) ==
  /\ m > 0 => first = s[1] /\ last = s[m]
  /\ \A i \in 1 .. m - 1 : fwd[s[i]] = s[i + 1] /\ bwd[s[i + 1]] = s[i]

\* Its nodes from the last one on.
LEMMA WalkedBack ==
  ASSUME NEW m \in Nat, NEW s, NEW first, NEW last, NEW fwd, NEW bwd,
         Chained(s, m, first, last, fwd, bwd)
  PROVE  \A k \in 0 .. m - 1 : Walked(last, bwd, m)[k] = s[m - k]
<1> DEFINE t == [i \in 1 .. m |-> s[m + 1 - i]]
<1>1. \A i \in 1 .. m - 1 : bwd[t[i]] = t[i + 1]
  <2> TAKE i \in 1 .. m - 1
  <2>1. m - i \in 1 .. m - 1 /\ m + 1 - i = (m - i) + 1 /\ m + 1 - (i + 1) = m - i
        /\ i \in 1 .. m /\ i + 1 \in 1 .. m
    OBVIOUS
  <2>2. bwd[s[(m - i) + 1]] = s[m - i]
    BY <2>1 DEF Chained
  <2>3. t[i] = s[m + 1 - i] /\ t[i + 1] = s[m + 1 - (i + 1)]
    BY <2>1
  <2> QED
    BY <2>1, <2>2, <2>3
<1>2. m > 0 => last = t[1]
  BY DEF Chained
<1>3. \A k \in 0 .. m - 1 : t[k + 1] = s[m - k]
  OBVIOUS
<1> HIDE DEF t
<1>4. \A k \in 0 .. m - 1 : Walked(last, bwd, m)[k] = t[k + 1]
  BY <1>1, <1>2, WalkedIs
<1> QED
  BY <1>3, <1>4

\* The node number i is found from either end.
LEMMA FoundAt ==
  ASSUME NEW m \in Nat, NEW s, NEW first, NEW last, NEW fwd, NEW bwd,
         Chained(s, m, first, last, fwd, bwd), NEW i \in 0 .. m - 1
  PROVE  Walked(first, fwd, m)[i] = s[i + 1] /\ Walked(last, bwd, m)[m - 1 - i] = s[i + 1]
<1>1. Walked(first, fwd, m)[i] = s[i + 1]
  <2>1. m > 0 => first = s[1]
    BY DEF Chained
  <2>2. \A j \in 1 .. m - 1 : fwd[s[j]] = s[j + 1]
    BY DEF Chained
  <2> QED
    BY <2>1, <2>2, WalkedIs
<1>2. Walked(last, bwd, m)[m - 1 - i] = s[i + 1]
  <2>1. m - 1 - i \in 0 .. m - 1 /\ m - (m - 1 - i) = i + 1
    OBVIOUS
  <2>2. Walked(last, bwd, m)[m - 1 - i] = s[m - (m - 1 - i)]
    BY <2>1, WalkedBack
  <2> QED
    BY <2>1, <2>2
<1> QED
  BY <1>1, <1>2

\* The pointers of the list are those of any sequence that it represents.
LEMMA ChainedNow ==
  ASSUME num_items \in Nat, NEW s, Ends(s), Links(s)
  PROVE  Chained(s, num_items, head, tail, next, prev)
BY DEF Ends, Links, Chained

\* The list is the sequence whose pointers it has, before a step and after it.
LEMMA ChainIs ==
  ASSUME num_items \in Nat, NEW s \in Ordering, Ends(s), Links(s)
  PROVE  Chain = s
<1>1. \A i \in 1 .. num_items : GetAt(i - 1) = s[i]
  <2> TAKE i \in 1 .. num_items
  <2>1. i - 1 \in 0 .. num_items - 1 /\ (i - 1) + 1 = i
    OBVIOUS
  <2> QED
    BY <2>1, ChainedNow, FoundAt DEF GetAt
<1> QED
  BY <1>1 DEF Chain, Ordering

\* The same, after a step.
LEMMA ChainBecomes ==
  ASSUME num_items' \in Nat, NEW s \in Ordering', Ends(s)', Links(s)'
  PROVE  Chain' = s
<1>0. Chained(s, num_items', head', tail', next', prev')
  BY DEF Ends, Links, Chained
<1>1. \A i \in 1 .. num_items' : GetAt(i - 1)' = s[i]
  <2> TAKE i \in 1 .. num_items'
  <2>1. i - 1 \in 0 .. num_items' - 1 /\ (i - 1) + 1 = i
    <3>1. \A m \in Nat : \A j \in 1 .. m : j - 1 \in 0 .. m - 1 /\ (j - 1) + 1 = j
      OBVIOUS
    <3> QED
      BY <3>1
  <2>2. Walked(head', next', num_items')[i - 1] = s[i]
        /\ Walked(tail', prev', num_items')[num_items' - 1 - (i - 1)] = s[i]
    BY <1>0, <2>1, FoundAt
  <2> QED
    BY <2>2 DEF GetAt, Walked
<1> QED
  BY <1>1 DEF Chain, Ordering

\* DListGetIdx finds the index of a node of the list.
LEMMA GetIdxIs ==
  ASSUME num_items \in Nat, NEW s, Ends(s), Links(s), NEW i \in 1 .. num_items
  PROVE  GetIdx(s[i]) = i - 1
<1> DEFINE w == Walked(head, next, num_items)
           P(k) == w[k] \in {s[i], tail} /\ \A j \in 0 .. k - 1 : w[j] \notin {s[i], tail}
<1> HIDE DEF w
<1>1. \A k \in 0 .. num_items - 1 : w[k] = s[k + 1]
  <2>1. \A k \in 0 .. num_items - 1 : Walked(head, next, num_items)[k] = s[k + 1]
    BY ChainedNow, FoundAt
  <2> QED
    BY <2>1 DEF w
<1>2. tail = s[num_items] /\ num_items > 0
  BY DEF Ends
<1>d. \A j, k \in 1 .. num_items : s[j] = s[k] => j = k
  BY DEF Links
<1>e. i \in 1 .. num_items /\ num_items \in 1 .. num_items
  BY <1>2
<1>3. i - 1 \in 0 .. num_items - 1 /\ P(i - 1)
  <2>1. i - 1 \in 0 .. num_items - 1 /\ (i - 1) + 1 = i
    OBVIOUS
  <2>2. w[i - 1] = s[i]
    BY <1>1, <2>1
  <2>3. ASSUME NEW j \in 0 .. (i - 1) - 1 PROVE w[j] \notin {s[i], tail}
    <3>1. j \in 0 .. num_items - 1 /\ j + 1 \in 1 .. num_items /\ j + 1 # i /\ j + 1 # num_items
      OBVIOUS
    <3>2. w[j] = s[j + 1]
      BY <1>1, <3>1
    <3> QED
      BY <1>2, <1>d, <1>e, <3>1, <3>2
  <2> QED
    BY <2>1, <2>2, <2>3
<1>4. ASSUME NEW k \in 0 .. num_items - 1, P(k) PROVE k = i - 1
  <2>1. CASE k > i - 1
    <3>1. i - 1 \in 0 .. k - 1
      BY <2>1
    <3> QED
      BY <1>3, <1>4, <3>1, <1>1
  <2>2. CASE k < i - 1
    <3>1. k + 1 \in 1 .. num_items /\ k + 1 # i /\ k + 1 # num_items
      BY <2>2
    <3>2. w[k] = s[k + 1]
      BY <1>1
    <3> QED
      BY <1>2, <1>4, <1>d, <1>e, <3>1, <3>2
  <2> QED
    BY <2>1, <2>2
<1>5. GetIdx(s[i]) = CHOOSE k \in 0 .. num_items - 1 : P(k)
  BY DEF GetIdx, w
<1> HIDE DEF P
<1> QED
  BY <1>3, <1>4, <1>5

\* Between all steps, the pointers of a list lead to each node where both look-ups find it.
LEMMA LookupsFind == num_items \in Nat => LookupsAgree
<1> SUFFICES ASSUME num_items \in Nat, NEW s \in [1 .. num_items -> Node], Represents(s),
                    NEW i \in 1 .. num_items
             PROVE  GetAt(i - 1) = s[i] /\ GetIdx(s[i]) = i - 1
  BY DEF LookupsAgree
<1>1. Ends(s) /\ Links(s)
  BY DEF Represents
<1>2. i - 1 \in 0 .. num_items - 1 /\ (i - 1) + 1 = i
  OBVIOUS
<1>3. GetAt(i - 1) = s[i]
  <2>1. s \in Ordering
    BY DEF Ordering
  <2>2. Chain = s
    BY <1>1, <2>1, ChainIs
  <2> QED
    BY <2>2 DEF Chain
<1> QED
  BY <1>1, <1>2, <1>3, GetIdxIs
-----------------------------------------------------------------------------
\* A list of one node, inserted into the empty list.
LEMMA FirstNode ==
  ASSUME TypeOK, num_items = 0, NEW n \in Node, Fresh(n), OnlyNode(n),
         num_items' = 1, cur_idx' = 0, at' = 0
  PROVE  Linked' /\ Chain' = Ins(Chain, n, 1)
<1>1. PICK t : t = [i \in 1 .. 1 |-> n]
  OBVIOUS
<1>2. t \in [1 .. 1 -> Node] /\ t[1] = n
  BY <1>1
<1>3. Ends(t)' /\ Links(t)' /\ Here(t)'
  BY <1>2 DEF Ends, Links, Here, Fresh, OnlyNode
<1>4. Chain' = t
  BY <1>2, <1>3, ChainBecomes DEF Ordering
<1>5. Ins(Chain, n, 1) = t
  BY <1>1 DEF Ins
<1> QED
  BY <1>2, <1>3, <1>4, <1>5 DEF Linked, Represents

\* An insertion that also leaves current at one of the nodes.
LEMMA InsertKeeps ==
  ASSUME TypeOK, NEW s \in Ordering, Represents(s), num_items > 0,
         NEW n \in Node, Fresh(n), NEW k \in 1 .. num_items + 1, Inserted(s, n, k),
         NEW p \in 0 .. num_items, at' = p,
         NEW q \in 0 .. num_items, cur_idx' = q,
         current' = IF p + 1 < k THEN s[p + 1] ELSE IF p + 1 = k THEN n ELSE s[p]
  PROVE  Linked' /\ Chain' = Ins(s, n, k)
<1>0. num_items \in Nat /\ num_items' = num_items + 1
  BY DEF TypeOK, Inserted
<1>1. \A i \in 1 .. num_items : s[i] # n
  BY FreshOutside DEF Represents
<1>2. PICK t : t = Ins(s, n, k)
  OBVIOUS
<1>3. t \in Ordering' /\ Ends(t)' /\ Links(t)'
  BY <1>1, <1>2, InsertLinks DEF Represents
<1>4. current' = t[p + 1]
  <2>1. p + 1 \in 1 .. num_items + 1 /\ (p + 1) - 1 = p
    BY <1>0
  <2>2. t[p + 1] = IF p + 1 < k THEN s[p + 1]
                   ELSE IF p + 1 = k THEN n ELSE s[(p + 1) - 1]
    BY ONLY <2>1, <1>2 DEF Ins
  <2> QED
    BY <2>1, <2>2
<1>5. Here(t)'
  BY <1>0, <1>4 DEF Here
<1>6. Chain' = t
  BY <1>0, <1>3, ChainBecomes
<1> QED
  BY <1>2, <1>3, <1>5, <1>6 DEF Linked, Represents, Ordering

\* A removal that also leaves current at one of the nodes.
LEMMA RemoveKeeps ==
  ASSUME TypeOK, NEW s \in Ordering, Represents(s), num_items > 1,
         NEW k \in 1 .. num_items, Removed(s, k),
         NEW p \in 0 .. num_items - 2, at' = p,
         NEW q \in 0 .. num_items - 2, cur_idx' = q,
         current' = IF p + 1 < k THEN s[p + 1] ELSE s[p + 2]
  PROVE  Linked' /\ Chain' = Del(s, k)
<1>0. num_items \in Nat /\ num_items' = num_items - 1
  BY DEF TypeOK, Removed
<1>1. PICK t : t = Del(s, k)
  OBVIOUS
<1>2. t \in Ordering' /\ Ends(t)' /\ Links(t)'
  BY <1>1, RemoveLinks DEF Represents
<1>3. current' = t[p + 1]
  <2>1. p + 1 \in 1 .. num_items - 1 /\ (p + 1) + 1 = p + 2
    BY <1>0
  <2>2. t[p + 1] = IF p + 1 < k THEN s[p + 1] ELSE s[(p + 1) + 1]
    BY ONLY <2>1, <1>1 DEF Del
  <2> QED
    BY <2>1, <2>2
<1>4. Here(t)'
  BY <1>0, <1>3 DEF Here
<1>5. Chain' = t
  BY <1>0, <1>2, ChainBecomes
<1> QED
  BY <1>1, <1>2, <1>4, <1>5 DEF Linked, Represents, Ordering

\* The list that a pop leaves empty.
LEMMA LastNode ==
  ASSUME Emptied, num_items = 1, cur_idx' = 0, at' = 0, NEW s
  PROVE  Linked' /\ Chain' = Del(s, 1)
<1>1. PICK t : t = [i \in 1 .. 0 |-> NULL]
  OBVIOUS
<1>2. t \in [1 .. 0 -> Node]
  BY <1>1
<1>3. Ends(t)' /\ Links(t)' /\ Here(t)'
  BY DEF Ends, Links, Here, Emptied
<1>4. Chain' = t
  BY <1>2, <1>3, ChainBecomes DEF Ordering, Emptied
<1>5. Del(s, 1) = t
  BY <1>1 DEF Del
<1> QED
  BY <1>2, <1>3, <1>4, <1>5 DEF Linked, Represents, Emptied
-----------------------------------------------------------------------------
\* DListAppendCurrent's change of the pointers, wherever cur_idx goes.
LEMMA LinkKeeps ==
  ASSUME TypeOK, NEW s \in Ordering, Represents(s), at = cur_idx,
         NEW n \in Node, Fresh(n), Link(n),
         NEW q \in 0 .. num_items, cur_idx' = q
  PROVE  /\ Linked'
         /\ {head', tail', current'} \subseteq Pointer
         /\ next' \in [Node -> Pointer] /\ prev' \in [Node -> Pointer]
         /\ num_items' = num_items + 1
         /\ at' = IF num_items = 0 THEN 0 ELSE cur_idx + 1
         /\ Chain' = Ins(s, n, IF num_items = 0 THEN 1 ELSE cur_idx + 2)
<1> DEFINE m == num_items
<1>0. m \in Nat /\ cur_idx \in Nat /\ Node \subseteq Pointer /\ NULL \in Pointer
  BY DEF TypeOK, Pointer
<1>1. CASE m = 0
  <2>1. current = NULL
    BY <1>1, Occupied
  <2>2. OnlyNode(n) /\ at' = 0 /\ num_items' = 1 /\ q = 0
    BY <1>1, <2>1 DEF Link
  <2>3. s = Chain
    BY <1>0, ChainIs DEF Represents
  <2> QED
    BY <1>0, <1>1, <2>2, <2>3, FirstNode DEF OnlyNode, TypeOK
<1>2. CASE m > 0
  <2>0. current \in Node /\ current # NULL /\ head \in Node /\ cur_idx < m /\ current = s[cur_idx + 1]
    BY <1>2, Occupied, DListAssumption DEF Represents, Here
  <2>o. \A i \in 1 .. m : s[i] # n /\ s[i] \in Node
    BY FreshOutside DEF Represents, Ordering
  <2>p. PICK p \in 0 .. m : p = cur_idx + 1 /\ p \in 1 .. m
    BY <1>0, <2>0
  <2>k. PICK k \in 1 .. m + 1 : k = cur_idx + 2 /\ k = p + 1 /\ k - 1 = p
    BY <1>0, <2>0, <2>p
  <2>d. \A i \in 1 .. m : s[i] = s[p] => i = p
    BY <2>p DEF Represents, Links
  <2>1. CASE k = m + 1
    <3>1. /\ next' = [next EXCEPT ![current] = n, ![n] = NULL]
          /\ prev' = [prev EXCEPT ![n] = current]
          /\ tail' = n /\ current' = n /\ at' = p /\ head' = head
          /\ num_items' = m + 1
      BY <1>0, <2>0, <2>p, <2>k, <2>1 DEF Link
    <3>2. next' \in [Node -> Pointer] /\ prev' \in [Node -> Pointer]
      BY <3>1, <1>0, <2>0 DEF TypeOK
    <3>3. next'[n] = NULL /\ prev'[n] = s[p]
      BY <3>1, <2>0, <2>p, <2>k DEF TypeOK
    <3>4. \A i \in 1 .. m :
             /\ next'[s[i]] = IF i = p THEN n ELSE next[s[i]]
             /\ prev'[s[i]] = IF i = k THEN n ELSE prev[s[i]]
      BY <3>1, <2>0, <2>1, <2>o, <2>d, <2>k, <2>p, <1>0 DEF TypeOK
    <3>a. k # 1 /\ k = num_items + 1 /\ k - 1 = p
      BY <2>1, <2>k, <2>p, <1>2
    <3>b. next'[n] = (IF k = num_items + 1 THEN NULL ELSE s[k])
          /\ prev'[n] = (IF k = 1 THEN NULL ELSE s[k - 1])
      BY ONLY <3>3, <3>a
    <3>c. head' = (IF k = 1 THEN n ELSE head)
          /\ tail' = (IF k = num_items + 1 THEN n ELSE tail)
      BY ONLY <3>1, <3>a
    <3>f. \A i \in 1 .. num_items :
             /\ next'[s[i]] = IF i = k - 1 THEN n ELSE next[s[i]]
             /\ prev'[s[i]] = IF i = k THEN n ELSE prev[s[i]]
      BY ONLY <3>4, <3>a
    <3>5. Inserted(s, n, k)
      BY ONLY <3>1, <3>2, <3>b, <3>c, <3>f DEF Inserted
    <3>6. Linked' /\ Chain' = Ins(s, n, k)
      BY <3>1, <3>5, <2>k, <2>p, <1>2, InsertKeeps
    <3> QED
      BY <3>1, <3>2, <3>6, <1>0, <1>2, <2>0, <2>k, <2>p
  <2>2. CASE k # m + 1
    <3>0. /\ next[current] = s[k] /\ next[current] \in Node
          /\ k \in 1 .. m
      BY <2>0, <2>2, <2>k, <1>0, <1>2, Occupied
    <3>1. /\ next' = [next EXCEPT ![n] = next[current], ![current] = n]
          /\ prev' = [prev EXCEPT ![n] = current, ![next[current]] = n]
          /\ current' = n /\ at' = p /\ head' = head /\ tail' = tail
          /\ num_items' = m + 1
      BY <1>0, <2>0, <2>p, <2>k, <2>2 DEF Link
    <3>2. next' \in [Node -> Pointer] /\ prev' \in [Node -> Pointer]
      BY <3>0, <3>1, <1>0, <2>0 DEF TypeOK
    <3>3. next'[n] = s[k] /\ prev'[n] = s[p]
      BY <3>0, <3>1, <2>0, <2>o, <2>k, <2>p DEF TypeOK
    <3>e. \A i \in 1 .. m : s[i] = s[k] => i = k
      BY <3>0 DEF Represents, Links
    <3>4. \A i \in 1 .. m :
             /\ next'[s[i]] = IF i = p THEN n ELSE next[s[i]]
             /\ prev'[s[i]] = IF i = k THEN n ELSE prev[s[i]]
      BY <3>0, <3>1, <3>e, <2>0, <2>o, <2>d, <2>k, <2>p, <1>0 DEF TypeOK
    <3>a. k # 1 /\ k # num_items + 1 /\ k - 1 = p
      BY <2>2, <2>k, <2>p, <1>2
    <3>b. next'[n] = (IF k = num_items + 1 THEN NULL ELSE s[k])
          /\ prev'[n] = (IF k = 1 THEN NULL ELSE s[k - 1])
      BY ONLY <3>3, <3>a
    <3>c. head' = (IF k = 1 THEN n ELSE head)
          /\ tail' = (IF k = num_items + 1 THEN n ELSE tail)
      BY ONLY <3>1, <3>a
    <3>f. \A i \in 1 .. num_items :
             /\ next'[s[i]] = IF i = k - 1 THEN n ELSE next[s[i]]
             /\ prev'[s[i]] = IF i = k THEN n ELSE prev[s[i]]
      BY ONLY <3>4, <3>a
    <3>5. Inserted(s, n, k)
      BY ONLY <3>1, <3>2, <3>b, <3>c, <3>f DEF Inserted
    <3>6. Linked' /\ Chain' = Ins(s, n, k)
      BY <3>1, <3>5, <2>k, <2>p, <1>2, InsertKeeps
    <3> QED
      BY <3>1, <3>2, <3>6, <1>0, <1>2, <2>0, <2>k, <2>p DEF TypeOK
  <2> QED
    BY <2>1, <2>2
<1> QED
  BY <1>0, <1>1, <1>2

\* DListPopCurrent's change of the pointers, wherever cur_idx goes.
LEMMA UnlinkKeeps ==
  ASSUME TypeOK, NEW s \in Ordering, Represents(s), num_items > 0, at = cur_idx,
         Unlink, NEW q, cur_idx' = q,
         IF num_items = 1 THEN q = 0 ELSE q \in 0 .. num_items - 2
  PROVE  /\ Linked'
         /\ {head', tail', current'} \subseteq Pointer
         /\ next' \in [Node -> Pointer] /\ prev' \in [Node -> Pointer]
         /\ num_items' = num_items - 1
         /\ at' = IF cur_idx = num_items - 1 /\ cur_idx # 0 THEN cur_idx - 1 ELSE cur_idx
         /\ Chain' = Del(s, cur_idx + 1)
<1> DEFINE m == num_items
<1>0. m \in Nat /\ cur_idx \in Nat /\ Node \subseteq Pointer /\ NULL \in Pointer
  BY DEF TypeOK, Pointer
<1>h. cur_idx < m /\ current = s[cur_idx + 1] /\ current \in Node /\ current # NULL
  BY Occupied, DListAssumption DEF Represents, Here
<1>t. next \in [Node -> Pointer] /\ prev \in [Node -> Pointer] /\ {head, tail} \subseteq Pointer
  BY DEF TypeOK
<1>1. CASE m = 1
  <2>1. Emptied /\ at' = 0
    BY <1>0, <1>1, <1>h DEF Unlink, Emptied
  <2>2. q = 0
    BY <1>1
  <2>3. Linked' /\ Chain' = Del(s, 1)
    BY ONLY <1>1, <2>1, <2>2, cur_idx' = q, LastNode
  <2>4. cur_idx + 1 = 1
    BY <1>0, <1>1, <1>h
  <2> QED
    BY <1>0, <1>1, <1>h, <1>t, <2>1, <2>3, <2>4 DEF Emptied
<1>2. CASE m > 1
  <2>k. PICK k \in 1 .. m : k = cur_idx + 1 /\ k - 1 = cur_idx
    BY <1>0, <1>h
  <2>q. q \in 0 .. m - 2
    BY <1>2, <1>0
  <2>s. \A i \in 1 .. m : s[i] \in Node
    BY DEF Ordering
  <2>d. \A i, j \in 1 .. m : s[i] = s[j] => i = j
    BY DEF Represents, Links
  <2>e. head = s[1] /\ tail = s[m]
    BY <1>2, <1>0 DEF Represents, Ends
  <2>c. current = s[k]
    BY <1>h, <2>k
  <2>n. k < m => next[current] = s[k + 1] /\ next[current] \in Node
    <3>1. k < m => at < num_items - 1 /\ at + 2 = k + 1
      BY <2>k, <1>0
    <3> QED
      BY <3>1, <1>0, <1>2, Occupied
  <2>p. k > 1 => prev[current] = s[k - 1] /\ prev[current] \in Node
    <3>1. k > 1 => at > 0 /\ at = k - 1
      BY <2>k, <1>0
    <3> QED
      BY <3>1, <1>0, <1>2, Occupied
  <2>1. CASE k = 1
    <3>1. /\ head' = next[current] /\ current' = next[current]
          /\ prev' = [prev EXCEPT ![next[current]] = NULL]
          /\ next' = [next EXCEPT ![current] = NULL]
          /\ num_items' = m - 1 /\ at' = 0 /\ tail' = tail
      BY <2>1, <2>k, <1>0, <1>2 DEF Unlink
    <3>2. next[current] = s[2] /\ s[2] \in Node /\ s[1] \in Node
      BY <2>1, <2>n, <2>s, <1>2, <1>0
    <3>3. next' \in [Node -> Pointer] /\ prev' \in [Node -> Pointer]
      BY <3>1, <3>2, <1>0, <1>t, <1>h
    <3>p. prev[s[1]] = NULL
      BY <1>2, <1>0 DEF Represents, Ends
    <3>4. \A i \in 1 .. m : i # k =>
             /\ next'[s[i]] = next[s[i]]
             /\ prev'[s[i]] = IF i = 2 THEN NULL ELSE prev[s[i]]
      BY <3>1, <3>2, <2>1, <2>c, <2>d, <2>s, <1>0, <1>2, <1>t
    <3>5. \A i \in 1 .. num_items : i # k =>
             /\ next'[s[i]] = IF i = k - 1 THEN next[s[k]] ELSE next[s[i]]
             /\ prev'[s[i]] = IF i = k + 1 THEN prev[s[k]] ELSE prev[s[i]]
      BY ONLY <3>4, <3>p, <2>1
    <3>6. /\ head' = (IF num_items = 1 THEN NULL ELSE IF k = 1 THEN s[2] ELSE head)
          /\ tail' = (IF num_items = 1 THEN NULL ELSE
                      IF k = num_items THEN s[num_items - 1] ELSE tail)
      BY <3>1, <3>2, <2>1, <1>2, <1>0
    <3>7. Removed(s, k)
      BY ONLY <3>1, <3>3, <3>5, <3>6 DEF Removed
    <3>8. current' = IF 0 + 1 < k THEN s[0 + 1] ELSE s[0 + 2]
      BY ONLY <3>1, <3>2, <2>1
    <3>9. Linked' /\ Chain' = Del(s, k)
      BY <3>1, <3>7, <3>8, <2>q, <1>2, <1>0, RemoveKeeps
    <3> QED
      BY <3>1, <3>2, <3>3, <3>9, <2>1, <2>k, <1>0, <1>t
  <2>2. CASE k > 1 /\ k = m
    <3>1. /\ tail' = prev[current] /\ current' = prev[current]
          /\ next' = [next EXCEPT ![prev[current]] = NULL]
          /\ prev' = [prev EXCEPT ![current] = NULL]
          /\ num_items' = m - 1 /\ at' = cur_idx - 1 /\ head' = head
      BY <2>2, <2>k, <1>0, <1>2 DEF Unlink
    <3>2. prev[current] = s[k - 1] /\ prev[current] \in Node /\ k - 1 \in 1 .. m
      BY <2>2, <2>p, <1>0
    <3>3. next' \in [Node -> Pointer] /\ prev' \in [Node -> Pointer]
      BY <3>1, <3>2, <1>0, <1>t, <1>h
    <3>p. next[s[k]] = NULL
      BY <2>2, <1>2, <1>0 DEF Represents, Ends
    <3>4. \A i \in 1 .. m : i # k =>
             /\ next'[s[i]] = IF i = k - 1 THEN NULL ELSE next[s[i]]
             /\ prev'[s[i]] = prev[s[i]]
      BY <3>1, <3>2, <2>2, <2>c, <2>d, <2>s, <1>0, <1>2, <1>t
    <3>5. \A i \in 1 .. num_items : i # k =>
             /\ next'[s[i]] = IF i = k - 1 THEN next[s[k]] ELSE next[s[i]]
             /\ prev'[s[i]] = IF i = k + 1 THEN prev[s[k]] ELSE prev[s[i]]
      BY ONLY <3>4, <3>p, <2>2, <1>0
    <3>6. /\ head' = (IF num_items = 1 THEN NULL ELSE IF k = 1 THEN s[2] ELSE head)
          /\ tail' = (IF num_items = 1 THEN NULL ELSE
                      IF k = num_items THEN s[num_items - 1] ELSE tail)
      BY <3>1, <3>2, <2>2, <1>2, <1>0
    <3>7. Removed(s, k)
      BY ONLY <3>1, <3>3, <3>5, <3>6 DEF Removed
    <3>a. PICK p \in 0 .. m - 2 : p = cur_idx - 1 /\ p + 1 < k /\ p + 1 = k - 1
      BY <2>2, <2>k, <1>0
    <3>8. at' = p /\ current' = IF p + 1 < k THEN s[p + 1] ELSE s[p + 2]
      BY ONLY <3>1, <3>2, <3>a
    <3>9. Linked' /\ Chain' = Del(s, k)
      BY <3>7, <3>8, <2>q, <1>2, <1>0, RemoveKeeps
    <3> QED
      BY <3>1, <3>2, <3>3, <3>9, <2>2, <2>k, <1>0, <1>t, <1>2
  <2>3. CASE k > 1 /\ k < m
    <3>1. /\ prev' = [prev EXCEPT ![next[current]] = prev[current], ![current] = NULL]
          /\ next' = [next EXCEPT ![prev[current]] = next[current], ![current] = NULL]
          /\ current' = next[current]
          /\ num_items' = m - 1 /\ at' = cur_idx /\ head' = head /\ tail' = tail
      BY <2>3, <2>k, <1>0, <1>2 DEF Unlink
    <3>2. /\ prev[current] = s[k - 1] /\ prev[current] \in Node /\ k - 1 \in 1 .. m
          /\ next[current] = s[k + 1] /\ next[current] \in Node /\ k + 1 \in 1 .. m
      BY <2>3, <2>p, <2>n, <1>0
    <3>3. next' \in [Node -> Pointer] /\ prev' \in [Node -> Pointer]
      BY <3>1, <3>2, <1>0, <1>t, <1>h
    <3>4. \A i \in 1 .. m : i # k => s[i] # current
      BY <2>c, <2>d
    <3>n. \A i \in 1 .. m : s[i] = prev[current] <=> i = k - 1
      BY <3>2, <2>d
    <3>o. \A i \in 1 .. m : s[i] = next[current] <=> i = k + 1
      BY <3>2, <2>d
    <3>5. \A i \in 1 .. num_items : i # k =>
             /\ next'[s[i]] = IF i = k - 1 THEN next[s[k]] ELSE next[s[i]]
             /\ prev'[s[i]] = IF i = k + 1 THEN prev[s[k]] ELSE prev[s[i]]
      BY ONLY <3>1, <3>4, <3>n, <3>o, <2>c, <2>s, <1>t
    <3>6. /\ head' = (IF num_items = 1 THEN NULL ELSE IF k = 1 THEN s[2] ELSE head)
          /\ tail' = (IF num_items = 1 THEN NULL ELSE
                      IF k = num_items THEN s[num_items - 1] ELSE tail)
      BY <3>1, <2>3, <1>2, <1>0
    <3>7. Removed(s, k)
      BY ONLY <3>1, <3>3, <3>5, <3>6 DEF Removed
    <3>a. PICK p \in 0 .. m - 2 : p = cur_idx /\ ~ p + 1 < k /\ p + 2 = k + 1
      BY <2>3, <2>k, <1>0
    <3>8. at' = p /\ current' = IF p + 1 < k THEN s[p + 1] ELSE s[p + 2]
      BY ONLY <3>1, <3>2, <3>a
    <3>9. Linked' /\ Chain' = Del(s, k)
      BY <3>7, <3>8, <2>q, <1>2, <1>0, RemoveKeeps
    <3> QED
      BY <3>1, <3>2, <3>3, <3>9, <2>3, <2>k, <1>0, <1>t, <1>2
  <2> QED
    BY <2>1, <2>2, <2>3, <2>k, <1>0
<1> QED
  BY <1>0, <1>1, <1>2
-----------------------------------------------------------------------------
\* An owner that pushes or pops at the end has its first node current.
LEMMA HeadIsCurrent ==
  ASSUME IInv, pc = "idle", "Push" \in owner \/ "PopTail" \in owner
  PROVE  cur_idx = 0
BY DEF IInv, HeadCurrent

\* A macro that ends, of an owner that neither pushes nor pops at the end.
LEMMA IdleKeeps ==
  ASSUME pc' = "idle", "Push" \notin owner, "PopTail" \notin owner, owner' = owner
  PROVE  Pending' /\ HeadCurrent'
BY DEF Pending, HeadCurrent

\* A macro that is one step and leaves cur_idx as it is.
LEMMA DoneKeeps ==
  ASSUME IInv, pc = "idle", Done(cur_idx),
         {head', tail', current'} \subseteq Pointer, num_items' \in Nat,
         next' \in [Node -> Pointer], prev' \in [Node -> Pointer]
  PROVE  TypeOK' /\ Pending' /\ HeadCurrent'
<1>1. TypeOK'
  BY DEF IInv, TypeOK, Done
<1>2. Pending'
  BY DEF Pending, Done
<1>3. HeadCurrent'
  BY DEF IInv, HeadCurrent, Done
<1> QED
  BY <1>1, <1>2, <1>3

\* The first node of an empty list.
LEMMA FirstKeeps ==
  ASSUME IInv, pc = "idle", num_items = 0, NEW n \in Node, Fresh(n), OnlyNode(n),
         num_items' = num_items + 1, Done(0)
  PROVE  IInv' /\ Chain' = Ins(Chain, n, 1)
<1>1. PICK s \in Ordering : Represents(s)
  BY DEF IInv, Linked, Ordering
<1>2. cur_idx = 0 /\ num_items' = 1
  BY <1>1 DEF Represents, Here
<1>3. Linked' /\ Chain' = Ins(Chain, n, 1)
  BY <1>2, FirstNode DEF IInv, Done
<1>4. {head', tail', current'} \subseteq Pointer /\ num_items' \in Nat
      /\ next' \in [Node -> Pointer] /\ prev' \in [Node -> Pointer]
  BY <1>2 DEF OnlyNode, IInv, TypeOK, Pointer
<1>5. TypeOK' /\ Pending' /\ HeadCurrent'
  BY <1>2, <1>4, DoneKeeps
<1> QED
  BY <1>3, <1>5 DEF IInv

\* DListAppend puts its node behind the last one.
LEMMA AppendKeeps ==
  ASSUME IInv, NEW n \in Node, DListAppend(n)
  PROVE  IInv' /\ Chain' = Ins(Chain, n, num_items + 1)
<1> USE DEF DListAppend, Idle
<1>1. PICK s \in Ordering : Represents(s)
  BY DEF IInv, Linked, Ordering
<1>2. TypeOK
  BY DEF IInv
<1>c. s = Chain
  BY <1>1, <1>2, ChainIs DEF TypeOK, Represents
<1>3. CASE num_items = 0
  <2>1. head = NULL
    BY <1>1, <1>2, <1>3, Occupied
  <2>2. num_items + 1 = 1
    BY <1>3
  <2> QED
    BY <1>3, <2>1, <2>2, FirstKeeps
<1>4. CASE num_items # 0
  <2>0. num_items \in Nat /\ num_items > 0 /\ cur_idx \in Nat /\ at = cur_idx
        /\ next \in [Node -> Pointer] /\ prev \in [Node -> Pointer]
        /\ {head, tail, current} \subseteq Pointer
    BY <1>2, <1>4 DEF TypeOK
  <2>1. head # NULL /\ tail \in Node
    BY <1>1, <1>2, <2>0, Occupied
  <2>2. /\ next' = [next EXCEPT ![tail] = n] /\ prev' = [prev EXCEPT ![n] = tail]
        /\ tail' = n /\ head' = head /\ current' = current
        /\ num_items' = num_items + 1 /\ Done(cur_idx)
    BY <2>1
  <2>3. /\ tail = s[num_items] /\ cur_idx < num_items /\ current = s[cur_idx + 1]
        /\ next[s[num_items]] = NULL
    BY <1>1, <2>0 DEF Represents, Ends, Here
  <2>4. \A i \in 1 .. num_items : s[i] # n /\ s[i] \in Node
    BY <1>1, <1>2, FreshOutside DEF Represents, Ordering
  <2>5. \A i \in 1 .. num_items : s[i] = tail <=> i = num_items
    BY <1>1, <2>0, <2>3 DEF Represents, Links
  <2>6. next' \in [Node -> Pointer] /\ prev' \in [Node -> Pointer]
        /\ {head', tail', current'} \subseteq Pointer
    BY <2>0, <2>1, <2>2 DEF Pointer
  <2>k. PICK k \in 1 .. num_items + 1 : k = num_items + 1 /\ k - 1 = num_items /\ k # 1
    BY <2>0
  <2>7. next'[n] = NULL /\ prev'[n] = s[k - 1]
    BY <2>0, <2>1, <2>2, <2>3, <2>4, <2>k DEF Fresh
  <2>8. \A i \in 1 .. num_items :
           /\ next'[s[i]] = IF i = num_items THEN n ELSE next[s[i]]
           /\ prev'[s[i]] = prev[s[i]]
    BY ONLY <2>0, <2>2, <2>4, <2>5
  <2>9. \A i \in 1 .. num_items :
           /\ next'[s[i]] = IF i = k - 1 THEN n ELSE next[s[i]]
           /\ prev'[s[i]] = IF i = k THEN n ELSE prev[s[i]]
    BY ONLY <2>8, <2>k, <2>0
  <2>10. head' = (IF k = 1 THEN n ELSE head)
         /\ tail' = (IF k = num_items + 1 THEN n ELSE tail)
         /\ next'[n] = (IF k = num_items + 1 THEN NULL ELSE s[k])
         /\ prev'[n] = (IF k = 1 THEN NULL ELSE s[k - 1])
    BY ONLY <2>2, <2>7, <2>k
  <2>11. Inserted(s, n, k)
    BY ONLY <2>2, <2>6, <2>9, <2>10 DEF Inserted
  <2>12. PICK p \in 0 .. num_items : p = cur_idx /\ p + 1 < k
    BY <2>0, <2>3, <2>k
  <2>13. at' = p /\ cur_idx' = p
         /\ current' = IF p + 1 < k THEN s[p + 1] ELSE IF p + 1 = k THEN n ELSE s[p]
    BY <2>2, <2>3, <2>12 DEF Done
  <2>14. Linked' /\ Chain' = Ins(s, n, k)
    BY <1>1, <1>2, <2>0, <2>11, <2>13, InsertKeeps
  <2>15. TypeOK' /\ Pending' /\ HeadCurrent'
    BY <2>0, <2>2, <2>6, DoneKeeps
  <2> QED
    BY <1>c, <2>k, <2>14, <2>15 DEF IInv
<1> QED
  BY <1>3, <1>4

\* A node before the first, which is current: what DListPush does, and
\* DListPrependCurrent when the first node is current.
LEMMA BeforeHead ==
  ASSUME IInv, pc = "idle", at = cur_idx, num_items # 0, NEW n \in Node, Fresh(n),
         cur_idx = 0,
         prev' = [prev EXCEPT ![head] = n], next' = [next EXCEPT ![n] = head],
         head' = n, current' = n, tail' = tail, num_items' = num_items + 1,
         Done(cur_idx)
  PROVE  IInv' /\ Chain' = Ins(Chain, n, 1)
<1>1. PICK s \in Ordering : Represents(s)
  BY DEF IInv, Linked, Ordering
<1>2. TypeOK
  BY DEF IInv
<1>0. num_items \in Nat /\ num_items > 0
      /\ next \in [Node -> Pointer] /\ prev \in [Node -> Pointer]
      /\ {head, tail, current} \subseteq Pointer
  BY <1>2 DEF TypeOK
<1>3. head = s[1] /\ head \in Node
  BY <1>0, <1>1, <1>2, Occupied DEF Represents, Ends
<1>4. \A i \in 1 .. num_items : s[i] # n /\ s[i] \in Node
  BY <1>1, <1>2, FreshOutside DEF Represents, Ordering
<1>5. \A i \in 1 .. num_items : s[i] = head <=> i = 1
  BY <1>0, <1>1, <1>3 DEF Represents, Links
<1>6. next' \in [Node -> Pointer] /\ prev' \in [Node -> Pointer]
      /\ {head', tail', current'} \subseteq Pointer /\ num_items' \in Nat
  BY <1>0, <1>3 DEF Pointer
<1>7. next'[n] = s[1] /\ prev'[n] = NULL
  BY <1>0, <1>3, <1>4 DEF Fresh
<1>8. \A i \in 1 .. num_items :
         /\ next'[s[i]] = next[s[i]]
         /\ prev'[s[i]] = IF i = 1 THEN n ELSE prev[s[i]]
  BY <1>0, <1>4, <1>5
<1>k. PICK k \in 1 .. num_items + 1 : k = 1 /\ k # num_items + 1 /\ k - 1 = 0
  BY <1>0
<1>9. \A i \in 1 .. num_items :
         /\ next'[s[i]] = IF i = k - 1 THEN n ELSE next[s[i]]
         /\ prev'[s[i]] = IF i = k THEN n ELSE prev[s[i]]
  BY ONLY <1>8, <1>k
<1>10. head' = (IF k = 1 THEN n ELSE head)
       /\ tail' = (IF k = num_items + 1 THEN n ELSE tail)
       /\ next'[n] = (IF k = num_items + 1 THEN NULL ELSE s[k])
       /\ prev'[n] = (IF k = 1 THEN NULL ELSE s[k - 1])
  BY <1>7, <1>k
<1>11. Inserted(s, n, k)
  BY <1>6, <1>9, <1>10 DEF Inserted
<1>12. PICK p \in 0 .. num_items : p = 0 /\ p + 1 = k
  BY <1>0, <1>k
<1>13. at' = p /\ cur_idx' = p
       /\ current' = IF p + 1 < k THEN s[p + 1] ELSE IF p + 1 = k THEN n ELSE s[p]
  BY <1>12, <1>k DEF Done
<1>14. Linked' /\ Chain' = Ins(s, n, k)
  BY <1>0, <1>1, <1>2, <1>11, <1>13, InsertKeeps
<1>15. TypeOK' /\ Pending' /\ HeadCurrent'
  BY <1>6, DoneKeeps
<1>c. s = Chain
  BY <1>1, <1>2, ChainIs DEF TypeOK, Represents
<1> QED
  BY <1>c, <1>k, <1>14, <1>15 DEF IInv

\* DListPush puts its node before the first one.
LEMMA PushKeeps ==
  ASSUME IInv, NEW n \in Node, DListPush(n)
  PROVE  IInv' /\ Chain' = Ins(Chain, n, 1)
<1> USE DEF DListPush, Idle
<1>1. PICK s \in Ordering : Represents(s)
  BY DEF IInv, Linked, Ordering
<1>2. TypeOK /\ cur_idx = 0
  BY HeadIsCurrent DEF IInv
<1>3. CASE num_items = 0
  BY <1>1, <1>2, <1>3, FirstKeeps, Occupied
<1>4. CASE num_items # 0
  <2>1. num_items > 0 /\ at + 1 = 1
    BY <1>2, <1>4 DEF TypeOK
  <2>2. head # NULL /\ current = head
    BY <1>1, <1>2, <2>1, Occupied, DListAssumption DEF Represents, Ends, Here
  <2>3. /\ prev' = [prev EXCEPT ![head] = n, ![head] = n]
        /\ next' = [next EXCEPT ![n] = head]
        /\ head' = n /\ current' = n /\ tail' = tail
    BY <2>2
  <2>4. prev' = [prev EXCEPT ![head] = n]
    BY <1>2, <2>3 DEF TypeOK
  <2> QED
    BY <1>2, <1>4, <2>3, <2>4, BeforeHead
<1> QED
  BY <1>3, <1>4

\* DListPopTail is the removal of the last node with the first one current.
LEMMA PopTailKeeps ==
  ASSUME IInv, DListPopTail
  PROVE  IInv' /\ Chain' = Del(Chain, num_items)
<1> USE DEF DListPopTail, Idle
<1>1. PICK s \in Ordering : Represents(s)
  BY DEF IInv, Linked, Ordering
<1>2. TypeOK /\ cur_idx = 0 /\ at = 0 /\ num_items \in Nat
  BY HeadIsCurrent DEF IInv, TypeOK
<1>t. next \in [Node -> Pointer] /\ prev \in [Node -> Pointer] /\ {head, current} \subseteq Pointer
      /\ NULL \in Pointer
  BY <1>2 DEF TypeOK, Pointer
<1>c. s = Chain
  BY <1>1, <1>2, ChainIs DEF TypeOK, Represents
<1>3. num_items > 0 /\ tail \in Node
  BY <1>1, <1>2, Occupied
<1>4. CASE num_items = 1
  <2>1. Emptied /\ Done(cur_idx)
    BY <1>4
  <2>2. Linked' /\ Chain' = Del(Chain, 1)
    BY <1>2, <1>4, <2>1, LastNode DEF Done
  <2>3. TypeOK' /\ Pending' /\ HeadCurrent'
    BY <1>t, <2>1, DoneKeeps DEF Emptied
  <2> QED
    BY <1>4, <2>2, <2>3 DEF IInv
<1>5. CASE num_items > 1
  <2>1. /\ next' = [next EXCEPT ![prev[tail]] = NULL] /\ prev' = [prev EXCEPT ![tail] = NULL]
        /\ tail' = prev[tail] /\ num_items' = num_items - 1
        /\ head' = head /\ current' = current /\ Done(cur_idx)
    BY <1>5
  <2>k. PICK k \in 1 .. num_items : k = num_items /\ k # 1 /\ num_items # 1 /\ k - 1 \in 1 .. num_items - 1
    BY <1>2, <1>5
  <2>2. tail = s[k] /\ next[s[k]] = NULL /\ current = s[1]
    BY <1>1, <1>2, <1>5, <2>k DEF Represents, Ends, Here
  <2>3. prev[tail] = s[k - 1]
    <3>1. (k - 1) + 1 = k /\ prev[s[(k - 1) + 1]] = s[k - 1]
      BY <1>1, <2>k DEF Represents, Links
    <3> QED
      BY <3>1, <2>2
  <2>4. \A i \in 1 .. num_items : s[i] \in Node
    BY DEF Ordering
  <2>5. \A i \in 1 .. num_items : (s[i] = s[k] <=> i = k) /\ (s[i] = s[k - 1] <=> i = k - 1)
    BY <1>1, <2>k DEF Represents, Links
  <2>6. \A i \in 1 .. num_items : i # k =>
           /\ next'[s[i]] = IF i = k - 1 THEN next[s[k]] ELSE next[s[i]]
           /\ prev'[s[i]] = IF i = k + 1 THEN prev[s[k]] ELSE prev[s[i]]
    <3>1. \A i \in 1 .. num_items : i # k + 1
      BY <2>k
    <3> QED
      BY ONLY <1>t, <2>1, <2>2, <2>3, <2>4, <2>5, <3>1
  <2>7. prev[tail] \in Node /\ num_items - 1 \in Nat
    BY <2>3, <2>4, <2>k, <1>2
  <2>8. next' \in [Node -> Pointer] /\ prev' \in [Node -> Pointer]
        /\ {head', tail', current'} \subseteq Pointer /\ num_items' \in Nat
    BY <1>t, <1>3, <2>1, <2>7 DEF Pointer
  <2>9. /\ head' = (IF num_items = 1 THEN NULL ELSE IF k = 1 THEN s[2] ELSE head)
        /\ tail' = (IF num_items = 1 THEN NULL ELSE
                    IF k = num_items THEN s[num_items - 1] ELSE tail)
    BY ONLY <2>1, <2>3, <2>k
  <2>10. Removed(s, k)
    BY ONLY <2>1, <2>6, <2>8, <2>9 DEF Removed
  <2>11. PICK p \in 0 .. num_items - 2 : p = 0 /\ p + 1 < k /\ p + 1 = 1
    BY <1>2, <1>5, <2>k
  <2>12. at' = p /\ cur_idx' = p /\ current' = IF p + 1 < k THEN s[p + 1] ELSE s[p + 2]
    BY <1>2, <2>1, <2>2, <2>11 DEF Done
  <2>13. Linked' /\ Chain' = Del(s, k)
    BY <1>1, <1>2, <1>5, <2>10, <2>12, RemoveKeeps
  <2>14. TypeOK' /\ Pending' /\ HeadCurrent'
    BY <2>1, <2>8, DoneKeeps
  <2> QED
    BY <1>c, <2>k, <2>13, <2>14 DEF IInv
<1> QED
  BY <1>2, <1>3, <1>4, <1>5

\* Where the unlinked list may have its current node.
LEMMA UnlinkAt ==
  ASSUME TypeOK, NEW s \in Ordering, Represents(s), num_items > 0, at = cur_idx,
         NEW q, q = IF cur_idx = num_items - 1 /\ cur_idx # 0 THEN cur_idx - 1 ELSE cur_idx
  PROVE  IF num_items = 1 THEN q = 0 ELSE q \in 0 .. num_items - 2
BY DEF TypeOK, Represents, Here

\* DListPopCurrent takes out the current node, and the next one is current, or the
\* one before if it was the last.
LEMMA PopCurrentKeeps ==
  ASSUME IInv, DListPopCurrent
  PROVE  IInv' /\ num_items > 0 /\ cur_idx < num_items /\ Chain' = Del(Chain, cur_idx + 1)
         /\ cur_idx' = IF cur_idx = num_items - 1 /\ cur_idx # 0 THEN cur_idx - 1 ELSE cur_idx
<1> USE DEF DListPopCurrent, Idle
<1>1. PICK s \in Ordering : Represents(s)
  BY DEF IInv, Linked, Ordering
<1>2. TypeOK /\ num_items \in Nat /\ cur_idx \in Nat
  BY DEF IInv, TypeOK
<1>3. num_items > 0
  BY <1>1, <1>2, Occupied
<1>4. at' = IF cur_idx = num_items - 1 /\ cur_idx # 0 THEN cur_idx - 1 ELSE cur_idx
  <2>1. current # NULL /\ at < num_items
    BY <1>1, <1>3 DEF Represents, Here
  <2> QED
    BY <1>2, <1>3, <2>1 DEF Unlink, Emptied
<1>q. PICK q : q = IF cur_idx = num_items - 1 /\ cur_idx # 0 THEN cur_idx - 1 ELSE cur_idx
  OBVIOUS
<1>5. cur_idx' = q /\ IF num_items = 1 THEN q = 0 ELSE q \in 0 .. num_items - 2
  BY <1>1, <1>2, <1>3, <1>4, <1>q, UnlinkAt
<1>6. /\ Linked' /\ {head', tail', current'} \subseteq Pointer
      /\ next' \in [Node -> Pointer] /\ prev' \in [Node -> Pointer]
      /\ num_items' = num_items - 1 /\ Chain' = Del(s, cur_idx + 1)
  BY <1>1, <1>2, <1>3, <1>5, UnlinkKeeps
<1>7. cur_idx' \in Nat /\ at' \in Nat /\ num_items' \in Nat
  BY <1>2, <1>3, <1>4, <1>6
<1>8. TypeOK'
  BY <1>6, <1>7 DEF IInv, TypeOK
<1>9. Pending'
  BY DEF Pending
<1>10. HeadCurrent'
  <2>1. cur_idx = 0 => cur_idx' = 0
    BY <1>4
  <2> QED
    BY <2>1 DEF IInv, HeadCurrent
<1>c. s = Chain
  BY <1>1, <1>2, ChainIs DEF TypeOK, Represents
<1>h. cur_idx < num_items
  BY <1>1, <1>3 DEF Represents, Here
<1> QED
  BY <1>3, <1>4, <1>c, <1>h, <1>6, <1>8, <1>9, <1>10 DEF IInv

\* DListSetCurrent changes no pointer before its loop.
LEMMA SetCurrentKeeps ==
  ASSUME IInv, NEW i \in Int, DListSetCurrent(i)
  PROVE  IInv' /\ Chain' = Chain
<1> USE DEF DListSetCurrent, Idle
<1>1. PICK s \in Ordering : Represents(s)
  BY DEF IInv, Linked, Ordering
<1>2. num_items \in Nat /\ Idx(i) \in Nat /\ Idx(i) < num_items
  BY DEF IInv, TypeOK, InRange, Idx
<1>3. Ends(s)' /\ Links(s)'
  BY <1>1 DEF Represents, Ends, Links, pointers
<1>4. Here(s)'
  BY <1>1, <1>2 DEF Represents, Here, pointers
<1>5. Linked'
  BY <1>3, <1>4 DEF Linked, Represents, Ordering, pointers
<1>6. TypeOK'
  BY <1>2 DEF IInv, TypeOK, pointers
<1>7. Pending'
  BY DEF Pending
<1>8. HeadCurrent'
  BY DListAssumption DEF IInv, TypeOK, HeadCurrent
<1>c. Chain' = Chain
  BY DEF Chain, GetAt, pointers
<1> QED
  BY <1>c, <1>5, <1>6, <1>7, <1>8 DEF IInv

\* A turn of its loop moves current along one pointer.
LEMMA WalkKeeps ==
  ASSUME IInv, Walk
  PROVE  IInv' /\ Chain' = Chain
<1>1. PICK s \in Ordering : Represents(s)
  BY DEF IInv, Linked, Ordering
<1>2. TypeOK /\ num_items \in Nat /\ at \in Nat /\ cur_idx \in Nat
  BY DEF IInv, TypeOK
<1>3. num_items > 0 /\ at < num_items /\ cur_idx < num_items
  BY <1>1, <1>2 DEF Represents, Here, Walk
<1>4. PICK p \in 0 .. num_items - 1 :
         at' = p /\ current' = s[p + 1] /\ current' \in Node
  <2>1. CASE at < cur_idx
    <3>1. next[current] = s[at + 2] /\ next[current] \in Node
      BY <1>1, <1>2, <1>3, <2>1, Occupied
    <3>2. PICK p \in 0 .. num_items - 1 : p = at + 1 /\ p + 1 = at + 2
      BY <1>2, <1>3, <2>1
    <3>3. current' = next[current] /\ at' = p
      BY <1>2, <2>1, <3>2 DEF Walk
    <3> QED
      BY <3>1, <3>2, <3>3
  <2>2. CASE at > cur_idx
    <3>1. prev[current] = s[at] /\ prev[current] \in Node
      BY <1>1, <1>2, <1>3, <2>2, Occupied
    <3>2. PICK p \in 0 .. num_items - 1 : p = at - 1 /\ p + 1 = at
      BY <1>2, <1>3, <2>2
    <3>3. current' = prev[current] /\ at' = p
      BY <1>2, <2>2, <3>2 DEF Walk
    <3> QED
      BY <3>1, <3>2, <3>3
  <2> QED
    BY <2>1, <2>2 DEF Walk
<1>5. Ends(s)' /\ Links(s)'
  BY <1>1 DEF Represents, Ends, Links, Walk
<1>6. Here(s)'
  BY <1>2, <1>3, <1>4 DEF Here, Walk
<1>7. Linked'
  BY <1>5, <1>6 DEF Linked, Represents, Ordering, Walk
<1>8. TypeOK'
  BY <1>4 DEF IInv, TypeOK, Walk, Pointer
<1>9. Pending'
  BY DEF IInv, Pending, Fresh, Walk
<1>10. HeadCurrent'
  BY DEF IInv, HeadCurrent, Walk
<1>c. Chain' = Chain
  BY DEF Chain, GetAt, Walk
<1> QED
  BY <1>c, <1>7, <1>8, <1>9, <1>10 DEF IInv

\* DListPrependCurrent puts its node before the current one.
LEMMA PrependCurrentKeeps ==
  ASSUME IInv, NEW n \in Node, DListPrependCurrent(n)
  PROVE  IInv' /\ cur_idx \in 0 .. num_items /\ Chain' = Ins(Chain, n, cur_idx + 1)
<1> USE DEF DListPrependCurrent, Idle
<1>1. PICK s \in Ordering : Represents(s)
  BY DEF IInv, Linked, Ordering
<1>2. TypeOK /\ num_items \in Nat /\ cur_idx \in Nat
  BY DEF IInv, TypeOK
<1>c. s = Chain
  BY <1>1, <1>2, ChainIs DEF TypeOK, Represents
<1>3. CASE num_items = 0
  <2>1. cur_idx = 0 /\ cur_idx + 1 = 1
    BY <1>1, <1>3 DEF Represents, Here
  <2> QED
    BY <1>1, <1>2, <1>3, <2>1, FirstKeeps, Occupied
<1>4. CASE num_items # 0 /\ cur_idx = 0
  <2>1. current # NULL
    BY <1>1, <1>2, <1>4, Occupied
  <2>2. cur_idx + 1 = 1 /\ cur_idx \in 0 .. num_items
    BY <1>2, <1>4
  <2> QED
    BY <1>4, <2>1, <2>2, BeforeHead
<1>5. CASE num_items # 0 /\ cur_idx # 0
  <2>0. num_items > 0 /\ at = cur_idx
        /\ next \in [Node -> Pointer] /\ prev \in [Node -> Pointer]
        /\ {head, tail, current} \subseteq Pointer
    BY <1>2, <1>5 DEF TypeOK
  <2>1. current \in Node /\ current # NULL /\ current = s[cur_idx + 1] /\ cur_idx < num_items
    BY <1>1, <1>2, <2>0, Occupied, DListAssumption DEF Represents, Here
  <2>2. /\ next' = [next EXCEPT ![prev[current]] = n, ![n] = current]
        /\ prev' = [prev EXCEPT ![n] = prev[current], ![current] = n]
        /\ current' = n /\ head' = head /\ tail' = tail
        /\ num_items' = num_items + 1 /\ Done(cur_idx)
    BY <1>5, <2>1
  <2>k. PICK k \in 1 .. num_items :
           /\ k = cur_idx + 1 /\ k - 1 = cur_idx /\ k # 1
           /\ k # num_items + 1 /\ k - 1 \in 1 .. num_items
    BY <1>2, <1>5, <2>1
  <2>3. current = s[k] /\ prev[current] = s[k - 1] /\ prev[current] \in Node
    BY <1>1, <1>2, <1>5, <2>0, <2>1, <2>k, Occupied
  <2>4. \A i \in 1 .. num_items : s[i] # n /\ s[i] \in Node
    BY <1>1, <1>2, FreshOutside DEF Represents, Ordering
  <2>5. \A i \in 1 .. num_items : (s[i] = s[k] <=> i = k) /\ (s[i] = s[k - 1] <=> i = k - 1)
    BY <1>1, <2>k DEF Represents, Links
  <2>6. next' \in [Node -> Pointer] /\ prev' \in [Node -> Pointer]
        /\ {head', tail', current'} \subseteq Pointer /\ num_items' \in Nat
    BY <1>2, <2>0, <2>1, <2>2, <2>3 DEF Pointer
  <2>7. next'[n] = s[k] /\ prev'[n] = s[k - 1]
    BY ONLY <2>0, <2>1, <2>2, <2>3, <2>4, n \in Node
  <2>8. \A i \in 1 .. num_items :
           /\ next'[s[i]] = IF i = k - 1 THEN n ELSE next[s[i]]
           /\ prev'[s[i]] = IF i = k THEN n ELSE prev[s[i]]
    BY ONLY <2>0, <2>2, <2>3, <2>4, <2>5
  <2>9. head' = (IF k = 1 THEN n ELSE head)
        /\ tail' = (IF k = num_items + 1 THEN n ELSE tail)
        /\ next'[n] = (IF k = num_items + 1 THEN NULL ELSE s[k])
        /\ prev'[n] = (IF k = 1 THEN NULL ELSE s[k - 1])
    BY ONLY <2>2, <2>7, <2>k
  <2>10. Inserted(s, n, k)
    BY ONLY <2>2, <2>6, <2>8, <2>9 DEF Inserted
  <2>11. PICK p \in 0 .. num_items : p = cur_idx /\ p + 1 = k /\ ~ p + 1 < k
    BY <1>2, <2>1, <2>k
  <2>12. at' = p /\ cur_idx' = p
         /\ current' = IF p + 1 < k THEN s[p + 1] ELSE IF p + 1 = k THEN n ELSE s[p]
    BY <2>2, <2>11 DEF Done
  <2>13. Linked' /\ Chain' = Ins(s, n, k)
    <3>1. k \in 1 .. num_items + 1
      BY <1>2, <2>k
    <3> QED
      BY <1>1, <1>2, <2>0, <2>10, <2>12, <3>1, InsertKeeps
  <2>14. TypeOK' /\ Pending' /\ HeadCurrent'
    BY <2>2, <2>6, DoneKeeps
  <2> QED
    BY <1>c, <2>k, <2>11, <2>13, <2>14 DEF IInv
<1> QED
  BY <1>3, <1>4, <1>5

\* DListAppendCurrent puts its node behind the current one.
LEMMA AppendCurrentKeeps ==
  ASSUME IInv, NEW n \in Node, DListAppendCurrent(n)
  PROVE  IInv' /\ IF num_items = 0 THEN cur_idx' = 0 /\ cur_idx = 0 /\ Chain' = Ins(Chain, n, 1)
                  ELSE cur_idx < num_items /\ cur_idx' = cur_idx + 1 /\ Chain' = Ins(Chain, n, cur_idx + 2)
<1> USE DEF DListAppendCurrent, Idle
<1>1. PICK s \in Ordering : Represents(s)
  BY DEF IInv, Linked, Ordering
<1>2. TypeOK /\ num_items \in Nat /\ cur_idx \in Nat
  BY DEF IInv, TypeOK
<1>3. at' = IF num_items = 0 THEN 0 ELSE cur_idx + 1
  BY <1>1, <1>2, Occupied DEF Link
<1>4. PICK q \in 0 .. num_items : cur_idx' = q
  BY <1>1, <1>2, <1>3 DEF Represents, Here
<1>5. /\ Linked' /\ {head', tail', current'} \subseteq Pointer
      /\ next' \in [Node -> Pointer] /\ prev' \in [Node -> Pointer]
      /\ num_items' = num_items + 1
      /\ Chain' = Ins(s, n, IF num_items = 0 THEN 1 ELSE cur_idx + 2)
  BY <1>1, <1>2, <1>4, LinkKeeps
<1>6. TypeOK'
  BY <1>2, <1>4, <1>5 DEF IInv, TypeOK
<1>7. Pending'
  BY DEF Pending
<1>8. HeadCurrent'
  BY DListAssumption DEF IInv, TypeOK, HeadCurrent
<1>c. s = Chain
  BY <1>1, <1>2, ChainIs DEF TypeOK, Represents
<1>h. IF num_items = 0 THEN cur_idx = 0 ELSE cur_idx < num_items
  BY <1>1 DEF Represents, Here
<1> QED
  BY <1>3, <1>c, <1>h, <1>5, <1>6, <1>7, <1>8 DEF IInv

\* The first half of DListInsertAt and of DListPopAt.
LEMMA BeginKeeps ==
  ASSUME IInv, pc = "idle", at = cur_idx, NEW n \in Pointer, NEW i \in Int,
         NEW half \in {"insert", "pop"}, Begin(half, n, i),
         half = "insert" => n \in Node /\ Fresh(n)
  PROVE  IInv' /\ Chain' = Chain
<1> USE DEF Begin
<1>1. PICK s \in Ordering : Represents(s)
  BY DEF IInv, Linked, Ordering
<1>2. num_items \in Nat /\ Idx(i) \in Nat /\ Idx(i) < num_items
  BY DEF IInv, TypeOK, InRange, Idx
<1>3. Ends(s)' /\ Links(s)'
  BY <1>1 DEF Represents, Ends, Links, pointers
<1>4. Here(s)'
  BY <1>1, <1>2 DEF Represents, Here, pointers
<1>5. Linked'
  BY <1>3, <1>4 DEF Linked, Represents, Ordering, pointers
<1>6. TypeOK'
  BY <1>2 DEF IInv, TypeOK, pointers
<1>7. Pending'
  BY <1>1, <1>2 DEF Pending, Fresh, Represents, Here, pointers
<1>8. HeadCurrent'
  BY DEF IInv, HeadCurrent
<1>c. Chain' = Chain
  BY DEF Chain, GetAt, pointers
<1> QED
  BY <1>c, <1>5, <1>6, <1>7, <1>8 DEF IInv

\* The second half of DListInsertAt puts the node behind the one it has walked to.
LEMMA InsertHereKeeps ==
  ASSUME IInv, InsertHere
  PROVE  IInv' /\ num_items > 0 /\ cur_idx < num_items /\ Chain' = Ins(Chain, arg, cur_idx + 2)
<1> USE DEF InsertHere, End
<1>1. PICK s \in Ordering : Represents(s)
  BY DEF IInv, Linked, Ordering
<1>2. TypeOK /\ num_items \in Nat /\ cur_idx \in Nat /\ saved \in Nat
  BY DEF IInv, TypeOK
<1>3. arg \in Node /\ Fresh(arg) /\ num_items > 0 /\ saved < num_items
  BY DEF IInv, Pending
<1>4. PICK q \in 0 .. num_items : cur_idx' = q
  BY <1>2, <1>3
<1>5. /\ Linked' /\ {head', tail', current'} \subseteq Pointer
      /\ next' \in [Node -> Pointer] /\ prev' \in [Node -> Pointer]
      /\ Chain' = Ins(s, arg, IF num_items = 0 THEN 1 ELSE cur_idx + 2)
      /\ num_items' = num_items + 1 /\ at' = IF num_items = 0 THEN 0 ELSE cur_idx + 1
  BY <1>1, <1>2, <1>3, <1>4, LinkKeeps
<1>6. TypeOK'
  BY <1>2, <1>4, <1>5 DEF IInv, TypeOK, Pointer
<1>7. Pending'
  BY DEF Pending
<1>8. HeadCurrent'
  BY <1>2 DEF IInv, HeadCurrent
<1>c. s = Chain
  BY <1>1, <1>2, ChainIs DEF TypeOK, Represents
<1>h. cur_idx < num_items
  BY <1>1, <1>3 DEF Represents, Here
<1> QED
  BY <1>2, <1>3, <1>c, <1>h, <1>5, <1>6, <1>7, <1>8 DEF IInv

\* The second half of DListPopAt takes out the node that it has walked to.
LEMMA PopHereKeeps ==
  ASSUME IInv, PopHere
  PROVE  IInv' /\ num_items > 0 /\ cur_idx < num_items /\ Chain' = Del(Chain, cur_idx + 1)
         /\ at' = IF cur_idx = num_items - 1 /\ cur_idx # 0 THEN cur_idx - 1 ELSE cur_idx
<1> USE DEF PopHere, End
<1>1. PICK s \in Ordering : Represents(s)
  BY DEF IInv, Linked, Ordering
<1>2. TypeOK /\ num_items \in Nat /\ cur_idx \in Nat /\ saved \in Nat
  BY DEF IInv, TypeOK
<1>3. num_items > 0 /\ saved < num_items /\ cur_idx < num_items /\ at = cur_idx
      /\ current # NULL
  BY <1>1, <1>2, Occupied DEF IInv, Pending, Represents, Here
<1>4. at' = IF cur_idx = num_items - 1 /\ cur_idx # 0 THEN cur_idx - 1 ELSE cur_idx
  BY <1>2, <1>3 DEF Unlink, Emptied
<1>r. PICK r : r = IF cur_idx = num_items - 1 /\ cur_idx # 0 THEN cur_idx - 1 ELSE cur_idx
  OBVIOUS
<1>s. IF num_items = 1 THEN r = 0 ELSE r \in 0 .. num_items - 2
  BY <1>1, <1>2, <1>3, <1>r, UnlinkAt
<1>q. PICK q : q = IF saved = cur_idx THEN r ELSE IF saved > cur_idx THEN saved - 1 ELSE saved
  OBVIOUS
<1>5. cur_idx' = q
  BY <1>4, <1>q, <1>r
<1>6. IF num_items = 1 THEN q = 0 ELSE q \in 0 .. num_items - 2
  BY <1>2, <1>3, <1>q, <1>s
<1>7. /\ Linked' /\ {head', tail', current'} \subseteq Pointer
      /\ next' \in [Node -> Pointer] /\ prev' \in [Node -> Pointer]
      /\ num_items' = num_items - 1 /\ Chain' = Del(s, cur_idx + 1)
  BY <1>1, <1>2, <1>3, <1>5, <1>6, UnlinkKeeps
<1>8. cur_idx' \in Nat /\ at' \in Nat /\ num_items' \in Nat
  <2>1. r \in Nat /\ q \in Nat
    BY <1>2, <1>3, <1>6, <1>s
  <2> QED
    BY <1>2, <1>3, <1>4, <1>5, <1>7, <1>r, <2>1
<1>9. TypeOK'
  BY <1>7, <1>8 DEF IInv, TypeOK, Pointer
<1>10. Pending'
  BY DEF Pending
<1>11. HeadCurrent'
  <2>1. saved = 0 => cur_idx' = 0
    BY <1>2, <1>5, <1>q, <1>r
  <2> QED
    BY <2>1 DEF IInv, HeadCurrent
<1>c. s = Chain
  BY <1>1, <1>2, ChainIs DEF TypeOK, Represents
<1> QED
  BY <1>3, <1>4, <1>c, <1>7, <1>9, <1>10, <1>11 DEF IInv
-----------------------------------------------------------------------------
\* An empty list is linked.
LEMMA InitIInv == Init => IInv
<1> SUFFICES ASSUME Init PROVE IInv
  OBVIOUS
<1>1. PICK s : s = [i \in 1 .. 0 |-> NULL]
  OBVIOUS
<1>2. s \in [1 .. 0 -> Node]
  BY <1>1
<1>3. Ends(s) /\ Links(s) /\ Here(s)
  BY DEF Init, Ends, Links, Here
<1>4. Linked
  BY <1>2, <1>3 DEF Linked, Represents, Init
<1>5. TypeOK /\ Pending /\ HeadCurrent
  BY DEF Init, TypeOK, Pointer, Pending, HeadCurrent
<1> QED
  BY <1>4, <1>5 DEF IInv

\* No step of a macro breaks the invariant.
LEMMA NextIInv == IInv /\ [Next]_vars => IInv'
<1> SUFFICES ASSUME IInv, [Next]_vars PROVE IInv'
  OBVIOUS
<1>0. \A i \in -num_items .. num_items - 1 : i \in Int
  OBVIOUS
<1>1. ASSUME NEW n \in Node, DListAppend(n) PROVE IInv'
  BY <1>1, AppendKeeps
<1>2. ASSUME NEW n \in Node, DListPush(n) PROVE IInv'
  BY <1>2, PushKeeps
<1>3. ASSUME NEW n \in Node, DListPrependCurrent(n) PROVE IInv'
  BY <1>3, PrependCurrentKeeps
<1>4. ASSUME NEW n \in Node, DListAppendCurrent(n) PROVE IInv'
  BY <1>4, AppendCurrentKeeps
<1>5. ASSUME NEW n \in Node, NEW i \in Int, DListInsertAt(n, i) PROVE IInv'
  BY <1>5, BeginKeeps DEF DListInsertAt, Idle, Pointer
<1>6. ASSUME DListPopTail PROVE IInv'
  BY <1>6, PopTailKeeps
<1>7. ASSUME DListPopCurrent PROVE IInv'
  BY <1>7, PopCurrentKeeps
<1>8. ASSUME NEW i \in Int, DListSetCurrent(i) PROVE IInv'
  BY <1>8, SetCurrentKeeps
<1>9. ASSUME NEW i \in Int, DListPopAt(i) PROVE IInv'
  BY <1>9, BeginKeeps DEF DListPopAt, Idle, Pointer
<1>10. ASSUME Walk PROVE IInv'
  BY <1>10, WalkKeeps
<1>11. ASSUME InsertHere PROVE IInv'
  BY <1>11, InsertHereKeeps
<1>12. ASSUME PopHere PROVE IInv'
  BY <1>12, PopHereKeeps
<1>13. ASSUME UNCHANGED vars PROVE IInv'
  <2>1. TypeOK' /\ Pending' /\ HeadCurrent'
    BY <1>13 DEF IInv, TypeOK, Pending, Fresh, HeadCurrent, vars, pointers
  <2>2. Linked'
    BY <1>13 DEF IInv, Linked, Represents, Ends, Links, Here, vars, pointers
  <2> QED
    BY <2>1, <2>2 DEF IInv
<1> QED
  BY <1>0, <1>1, <1>2, <1>3, <1>4, <1>5, <1>6, <1>7, <1>8, <1>9, <1>10, <1>11,
     <1>12, <1>13 DEF Next

\* Head, tail, current and every node's pointers hold nodes of the list or NULL,
\* and the indices and the count never go below 0, whatever the macros called.
THEOREM TypeCorrect == Spec => []TypeOK
<1>1. IInv => TypeOK
  BY DEF IInv
<1> QED
  BY InitIInv, NextIInv, <1>1, PTL DEF Spec

\* The macros keep num_items, head, tail, current, next and prev of a list
\* telling one story at every step, also inside of DListInsertAt and DListPopAt.
THEOREM StaysLinked == Spec => []Linked
<1>1. IInv => Linked
  BY DEF IInv
<1> QED
  BY InitIInv, NextIInv, <1>1, PTL DEF Spec

\* DListGetAt and DListGetIdx agree with each other and with the pointers,
\* whatever macros were called before them.
THEOREM LookupsRight == Spec => []LookupsAgree
<1>1. IInv => LookupsAgree
  BY LookupsFind DEF IInv, TypeOK
<1> QED
  BY InitIInv, NextIInv, <1>1, PTL DEF Spec
-----------------------------------------------------------------------------
\* The abstract sequence, and what Ins and Del are of it.
LEMMA ChainTyped ==
  ASSUME IInv
  PROVE  Chain \in Seq(Node) /\ Len(Chain) = num_items /\ num_items \in Nat
<1>1. PICK s \in Ordering : Represents(s)
  BY DEF IInv, Linked, Ordering
<1>2. num_items \in Nat
  BY DEF IInv, TypeOK
<1>3. Chain = s
  BY <1>1, <1>2, ChainIs DEF Represents
<1> QED
  BY <1>2, <1>3 DEF Ordering

\* InsertAt of the abstract sequence.
LEMMA InsIs ==
  ASSUME IInv, NEW n \in Node, NEW k \in 1 .. num_items + 1
  PROVE  Ins(Chain, n, k) = Abstract!InsertAt(Chain, k, n)
<1>1. Chain \in Seq(Node) /\ Len(Chain) = num_items /\ num_items \in Nat
  BY ChainTyped
<1>2. Abstract!InsertAt(Chain, k, n) = InsertAt(Chain, k, n)
  BY DEF Abstract!InsertAt, InsertAt
<1>3. /\ InsertAt(Chain, k, n) \in Seq(Node) /\ Len(InsertAt(Chain, k, n)) = num_items + 1
      /\ \A i \in 1 .. num_items + 1 :
           InsertAt(Chain, k, n)[i] = IF i < k THEN Chain[i] ELSE IF i = k THEN n ELSE Chain[i - 1]
  <2> DEFINE c == Chain
             j == k
  <2>1. c \in Seq(Node) /\ j \in 1 .. Len(c) + 1 /\ n \in Node
    BY <1>1
  <2> HIDE DEF c, j
  <2>2. /\ InsertAt(c, j, n) \in Seq(Node) /\ Len(InsertAt(c, j, n)) = Len(c) + 1
        /\ \A i \in 1 .. Len(c) + 1 :
             InsertAt(c, j, n)[i] = IF i < j THEN c[i] ELSE IF i = j THEN n ELSE c[i - 1]
    BY ONLY <2>1, InsertIs
  <2> QED
    BY ONLY <1>1, <2>2 DEF c, j
<1> DEFINE t == InsertAt(Chain, k, n)
<1> HIDE DEF t
<1>4. t \in Seq(Node) /\ Len(t) = num_items + 1
      /\ \A i \in 1 .. num_items + 1 :
           t[i] = IF i < k THEN Chain[i] ELSE IF i = k THEN n ELSE Chain[i - 1]
  BY <1>3 DEF t
<1>5. t = [i \in 1 .. num_items + 1 |-> t[i]]
  BY <1>4
<1>6. t = Ins(Chain, n, k)
  BY <1>4, <1>5 DEF Ins
<1> QED
  BY <1>2, <1>6 DEF t

\* RemoveAt of the abstract sequence.
LEMMA DelIs ==
  ASSUME IInv, NEW k \in 1 .. num_items
  PROVE  Del(Chain, k) = Abstract!RemoveAt(Chain, k)
<1>1. Chain \in Seq(Node) /\ Len(Chain) = num_items /\ num_items \in Nat
  BY ChainTyped
<1>2. Abstract!RemoveAt(Chain, k) = RemoveAt(Chain, k)
  BY DEF Abstract!RemoveAt, RemoveAt
<1>3. /\ RemoveAt(Chain, k) \in Seq(Node) /\ Len(RemoveAt(Chain, k)) = num_items - 1
      /\ \A i \in 1 .. num_items - 1 :
           RemoveAt(Chain, k)[i] = IF i < k THEN Chain[i] ELSE Chain[i + 1]
  BY <1>1, RemoveIs
<1> DEFINE t == RemoveAt(Chain, k)
<1> HIDE DEF t
<1>4. t \in Seq(Node) /\ Len(t) = num_items - 1
      /\ \A i \in 1 .. num_items - 1 : t[i] = IF i < k THEN Chain[i] ELSE Chain[i + 1]
  BY <1>3 DEF t
<1>5. t = [i \in 1 .. num_items - 1 |-> t[i]]
  BY <1>4
<1>6. t = Del(Chain, k)
  BY <1>4, <1>5 DEF Del
<1> QED
  BY <1>2, <1>6 DEF t

\* Append to the abstract sequence.
LEMMA AppendIs ==
  ASSUME IInv, NEW n \in Node
  PROVE  Ins(Chain, n, num_items + 1) = Append(Chain, n)
<1>1. Chain \in Seq(Node) /\ Len(Chain) = num_items /\ num_items \in Nat
  BY ChainTyped
<1> DEFINE c == Chain
           m == num_items
<1>2. c \in Seq(Node) /\ Len(c) = m /\ m \in Nat
  BY <1>1
<1> HIDE DEF c, m
<1>3. Append(c, n) = [i \in 1 .. m + 1 |-> IF i = m + 1 THEN n ELSE c[i]]
  <2> DEFINE t == Append(c, n)
  <2>1. t \in Seq(Node) /\ Len(t) = m + 1
        /\ \A i \in 1 .. m + 1 : t[i] = IF i = m + 1 THEN n ELSE c[i]
    BY <1>2
  <2> HIDE DEF t
  <2>2. t = [i \in 1 .. m + 1 |-> t[i]]
    BY <2>1
  <2>3. t = [i \in 1 .. m + 1 |-> IF i = m + 1 THEN n ELSE c[i]]
    BY ONLY <2>1, <2>2
  <2> QED
    BY <2>3 DEF t
<1>4. [i \in 1 .. m + 1 |-> IF i = m + 1 THEN n ELSE c[i]]
        = [i \in 1 .. m + 1 |-> IF i < m + 1 THEN c[i] ELSE IF i = m + 1 THEN n ELSE c[i - 1]]
  BY <1>2
<1>5. Append(c, n) = Ins(Chain, n, num_items + 1)
  BY <1>3, <1>4 DEF Ins, c, m
<1> QED
  BY <1>5 DEF c

\* A zeroed node is not an item of the abstract sequence.
LEMMA FreshMember ==
  ASSUME IInv, NEW n \in Node, Fresh(n)
  PROVE  n \notin Abstract!Members
<1>1. PICK s \in Ordering : Represents(s)
  BY DEF IInv, Linked, Ordering
<1>2. num_items \in Nat /\ TypeOK
  BY DEF IInv, TypeOK
<1>3. Chain = s
  BY <1>1, <1>2, ChainIs DEF Represents
<1>4. \A i \in 1 .. num_items : s[i] # n
  BY <1>1, <1>2, FreshOutside DEF Represents
<1> QED
  BY <1>3, <1>4, ChainTyped DEF Abstract!Members

\* What the mapping makes of the index of the current node.
Cursor == IF pc = "idle" THEN cur_idx ELSE saved

\* A step of the list as a step of the sequence and its cursor.
Maps == Abstract!Next \/ (Chain' = Chain /\ Cursor' = Cursor)

\* A macro that inserts n before the item k of the sequence.
LEMMA MapsInsert ==
  ASSUME IInv, NEW n \in Node, Fresh(n), NEW k \in 1 .. num_items + 1,
         Chain' = Ins(Chain, n, k),
         \/ k = num_items + 1 /\ Cursor' = Cursor
         \/ k = 1 /\ Cursor' = 0
         \/ k = Cursor + 1 /\ Cursor' = Cursor
         \/ k = Cursor + 2 /\ num_items > 0 /\ Cursor' = Cursor + 1
         \/ k > 1 /\ Cursor' = IF Cursor > k - 2 THEN Cursor + 1 ELSE Cursor
  PROVE  Maps
<1>0. Chain \in Seq(Node) /\ Len(Chain) = num_items /\ num_items \in Nat
  BY ChainTyped
<1>c. Cursor \in Nat
  BY DEF IInv, TypeOK, Cursor
<1>f. n \notin Abstract!Members
  BY FreshMember
<1>i. Chain' = Abstract!InsertAt(Chain, k, n)
  BY InsIs
<1>1. CASE k = num_items + 1 /\ Cursor' = Cursor
  <2>1. Chain' = Append(Chain, n)
    BY <1>1, AppendIs
  <2> QED
    BY <1>1, <1>f, <2>1 DEF Maps, Abstract!Next, Abstract!Insert, Cursor
<1>2. CASE k = 1 /\ Cursor' = 0
  <2>1. Chain' = Abstract!With(n, 0)
    <3>1. 0 + 1 = k
      BY <1>2
    <3> QED
      BY ONLY <1>i, <3>1 DEF Abstract!With
  <2> QED
    BY <1>2, <1>f, <2>1 DEF Maps, Abstract!Next, Abstract!Insert, Cursor
<1>3. CASE k = Cursor + 1 /\ Cursor' = Cursor
  <2>1. Chain' = Abstract!With(n, Cursor)
    BY <1>3, <1>i DEF Abstract!With
  <2> QED
    BY <1>3, <1>f, <2>1 DEF Maps, Abstract!Next, Abstract!Insert, Cursor
<1>4. CASE k = Cursor + 2 /\ num_items > 0 /\ Cursor' = Cursor + 1
  <2>1. Chain' = Abstract!With(n, Cursor + 1)
    <3>1. (Cursor + 1) + 1 = k
      BY <1>4, <1>c
    <3> QED
      BY ONLY <1>i, <3>1 DEF Abstract!With
  <2>2. Chain # <<>>
    BY <1>0, <1>4
  <2> QED
    BY <1>4, <1>f, <2>1, <2>2 DEF Maps, Abstract!Next, Abstract!Insert, Cursor
<1>5. CASE k > 1 /\ Cursor' = IF Cursor > k - 2 THEN Cursor + 1 ELSE Cursor
  <2>1. k - 2 \in Abstract!Index /\ ((k - 2) + 1) + 1 = k
    BY <1>0, <1>5 DEF Abstract!Index
  <2>2. Chain' = Abstract!With(n, (k - 2) + 1)
    BY ONLY <1>i, <2>1 DEF Abstract!With
  <2> QED
    BY <1>5, <1>f, <2>1, <2>2 DEF Maps, Abstract!Next, Abstract!Insert, Cursor
<1> QED
  BY <1>1, <1>2, <1>3, <1>4, <1>5

\* A macro that removes the item k of the sequence, counted from 0.
LEMMA MapsRemove ==
  ASSUME IInv, NEW k \in 0 .. num_items - 1, Chain' = Del(Chain, k + 1),
         Cursor < num_items,
         Cursor' = IF k = Cursor
                   THEN IF Cursor > 0 /\ Cursor = num_items - 1 THEN Cursor - 1 ELSE Cursor
                   ELSE IF Cursor > k THEN Cursor - 1 ELSE Cursor
  PROVE  Maps
<1>0. Chain \in Seq(Node) /\ Len(Chain) = num_items /\ num_items \in Nat
  BY ChainTyped
<1>c. Cursor \in Nat
  BY DEF IInv, TypeOK, Cursor
<1>i. Chain' = Abstract!Without(k)
  <2>1. k + 1 \in 1 .. num_items
    BY <1>0
  <2> QED
    BY <2>1, DelIs DEF Abstract!Without
<1>n. Chain # <<>>
  BY <1>0, <1>c
<1>1. CASE k = Cursor
  BY <1>0, <1>1, <1>i, <1>n DEF Maps, Abstract!Next, Abstract!RemoveCurrent, Cursor
<1>2. CASE k # Cursor
  <2>1. k \in Abstract!Index \ {Cursor}
    BY <1>0, <1>2 DEF Abstract!Index
  <2>2. Cursor' = IF Cursor > k THEN Cursor - 1 ELSE Cursor
    BY <1>2
  <2>3. Abstract!RemoveOther(k)
    BY <1>i, <2>1, <2>2 DEF Abstract!RemoveOther, Cursor
  <2> QED
    BY <2>1, <2>3 DEF Maps, Abstract!Next
<1> QED
  BY <1>1, <1>2

\* A macro that moves the cursor.
LEMMA MapsMove ==
  ASSUME IInv, Chain' = Chain, Cursor' \in 0 .. num_items - 1
  PROVE  Maps
<1>1. Cursor' \in Abstract!Index
  BY ChainTyped DEF Abstract!Index
<1> QED
  BY <1>1 DEF Maps, Abstract!Next, Abstract!Move, Cursor
-----------------------------------------------------------------------------
\* An empty list is the empty sequence.
LEMMA InitMaps == Init => Abstract!Init
<1> SUFFICES ASSUME Init PROVE Abstract!Init
  OBVIOUS
<1>1. Chain = <<>>
  <2>1. num_items = 0
    BY DEF Init
  <2> QED
    BY <2>1 DEF Chain
<1> QED
  BY <1>1 DEF Abstract!Init, Init

\* Every macro, and every half of one, does to the sequence what its name says.
LEMMA NextMaps == IInv /\ [Next]_vars => Maps
<1> SUFFICES ASSUME IInv, [Next]_vars PROVE Maps
  OBVIOUS
<1>t. num_items \in Nat /\ cur_idx \in Nat /\ saved \in Nat /\ at \in Nat
  BY DEF IInv, TypeOK
<1>r. IF num_items = 0 THEN cur_idx = 0 /\ at = 0 ELSE cur_idx < num_items /\ at < num_items
  <2>1. PICK s \in Ordering : Represents(s)
    BY DEF IInv, Linked, Ordering
  <2> QED
    BY <2>1 DEF Represents, Here
<1>1. ASSUME NEW n \in Node, DListAppend(n) PROVE Maps
  <2>1. Chain' = Ins(Chain, n, num_items + 1)
    BY <1>1, AppendKeeps
  <2>2. Fresh(n) /\ Cursor' = Cursor
    <3>1. num_items = 0 <=> head = NULL
      <4>1. PICK s \in Ordering : Represents(s)
        BY DEF IInv, Linked, Ordering
      <4> QED
        BY <4>1, Occupied DEF IInv
    <3> QED
      BY <1>1, <1>r, <3>1 DEF DListAppend, Idle, Cursor, Done
  <2>3. num_items + 1 \in 1 .. num_items + 1
    BY <1>t
  <2> QED
    BY <2>1, <2>2, <2>3, MapsInsert
<1>2. ASSUME NEW n \in Node, DListPush(n) PROVE Maps
  <2>1. Chain' = Ins(Chain, n, 1)
    BY <1>2, PushKeeps
  <2>2. Fresh(n) /\ Cursor' = 0
    <3>1. cur_idx = 0
      BY <1>2, HeadIsCurrent DEF DListPush, Idle
    <3> QED
      BY <1>2, <3>1 DEF DListPush, Idle, Cursor, Done
  <2>3. 1 \in 1 .. num_items + 1
    BY <1>t
  <2> QED
    BY <2>1, <2>2, <2>3, MapsInsert
<1>3. ASSUME NEW n \in Node, DListPrependCurrent(n) PROVE Maps
  <2>1. Chain' = Ins(Chain, n, cur_idx + 1) /\ cur_idx \in 0 .. num_items
    BY <1>3, PrependCurrentKeeps
  <2>2. Fresh(n) /\ Cursor = cur_idx /\ Cursor' = Cursor
    <3>1. num_items = 0 <=> current = NULL
      <4>1. PICK s \in Ordering : Represents(s)
        BY DEF IInv, Linked, Ordering
      <4> QED
        BY <4>1, Occupied DEF IInv
    <3> QED
      BY <1>3, <1>r, <3>1 DEF DListPrependCurrent, Idle, Cursor, Done
  <2>3. cur_idx + 1 \in 1 .. num_items + 1
    BY <1>t, <2>1
  <2> QED
    BY <2>1, <2>2, <2>3, MapsInsert
<1>4. ASSUME NEW n \in Node, DListAppendCurrent(n) PROVE Maps
  <2>1. IF num_items = 0 THEN cur_idx' = 0 /\ cur_idx = 0 /\ Chain' = Ins(Chain, n, 1)
        ELSE cur_idx < num_items /\ cur_idx' = cur_idx + 1 /\ Chain' = Ins(Chain, n, cur_idx + 2)
    BY <1>4, AppendCurrentKeeps
  <2>2. Fresh(n) /\ Cursor = cur_idx /\ Cursor' = cur_idx'
    BY <1>4 DEF DListAppendCurrent, Idle, Cursor
  <2>3. CASE num_items = 0
    <3>1. 1 \in 1 .. num_items + 1
      BY <1>t
    <3> QED
      BY <2>1, <2>2, <2>3, <3>1, MapsInsert
  <2>4. CASE num_items # 0
    <3>1. cur_idx + 2 \in 1 .. num_items + 1 /\ num_items > 0
      BY <1>t, <2>1, <2>4
    <3> QED
      BY <2>1, <2>2, <2>4, <3>1, MapsInsert
  <2> QED
    BY <2>3, <2>4
<1>5. ASSUME NEW n \in Node, NEW i \in Int, DListInsertAt(n, i) PROVE Maps
  <2>1. Chain' = Chain
    BY <1>5, BeginKeeps DEF DListInsertAt, Idle, Pointer
  <2>2. Cursor' = Cursor
    BY <1>5 DEF DListInsertAt, Idle, Begin, Cursor
  <2> QED
    BY <2>1, <2>2 DEF Maps
<1>6. ASSUME DListPopTail PROVE Maps
  <2>1. Chain' = Del(Chain, num_items)
    BY <1>6, PopTailKeeps
  <2>2. cur_idx = 0 /\ Cursor = 0 /\ Cursor' = 0 /\ num_items > 0
    <3>1. cur_idx = 0
      BY <1>6, HeadIsCurrent DEF DListPopTail, Idle
    <3>2. num_items # 0
      <4>1. PICK s \in Ordering : Represents(s)
        BY DEF IInv, Linked, Ordering
      <4> QED
        BY <4>1, <1>6, Occupied DEF IInv, DListPopTail
    <3> QED
      BY <1>6, <1>t, <3>1, <3>2 DEF DListPopTail, Idle, Cursor, Done
  <2>3. num_items - 1 \in 0 .. num_items - 1 /\ (num_items - 1) + 1 = num_items
    BY <1>t, <2>2
  <2>4. Cursor' = IF num_items - 1 = Cursor
                  THEN IF Cursor > 0 /\ Cursor = num_items - 1 THEN Cursor - 1 ELSE Cursor
                  ELSE IF Cursor > num_items - 1 THEN Cursor - 1 ELSE Cursor
    BY <1>t, <2>2
  <2> QED
    BY <2>1, <2>2, <2>3, <2>4, MapsRemove
<1>7. ASSUME DListPopCurrent PROVE Maps
  <2>1. /\ num_items > 0 /\ cur_idx < num_items /\ Chain' = Del(Chain, cur_idx + 1)
        /\ cur_idx' = IF cur_idx = num_items - 1 /\ cur_idx # 0 THEN cur_idx - 1 ELSE cur_idx
    BY <1>7, PopCurrentKeeps
  <2>2. Cursor = cur_idx /\ Cursor' = cur_idx'
    BY <1>7 DEF DListPopCurrent, Idle, Cursor
  <2>3. cur_idx \in 0 .. num_items - 1
    BY <1>t, <2>1
  <2>4. Cursor' = IF cur_idx = Cursor
                  THEN IF Cursor > 0 /\ Cursor = num_items - 1 THEN Cursor - 1 ELSE Cursor
                  ELSE IF Cursor > cur_idx THEN Cursor - 1 ELSE Cursor
    BY <1>t, <2>1, <2>2
  <2> QED
    BY <2>1, <2>2, <2>3, <2>4, MapsRemove
<1>8. ASSUME NEW i \in Int, DListSetCurrent(i) PROVE Maps
  <2>1. Chain' = Chain
    BY <1>8, SetCurrentKeeps
  <2>2. Cursor' \in 0 .. num_items - 1
    BY <1>8 DEF DListSetCurrent, Idle, InRange, Cursor
  <2> QED
    BY <2>1, <2>2, MapsMove
<1>9. ASSUME NEW i \in Int, DListPopAt(i) PROVE Maps
  <2>1. Chain' = Chain
    BY <1>9, BeginKeeps DEF DListPopAt, Idle, Pointer
  <2>2. Cursor' = Cursor
    BY <1>9 DEF DListPopAt, Idle, Begin, Cursor
  <2> QED
    BY <2>1, <2>2 DEF Maps
<1>10. ASSUME Walk PROVE Maps
  <2>1. Chain' = Chain
    BY <1>10, WalkKeeps
  <2>2. Cursor' = Cursor
    BY <1>10 DEF Walk, Cursor
  <2> QED
    BY <2>1, <2>2 DEF Maps
<1>11. ASSUME InsertHere PROVE Maps
  <2>1. num_items > 0 /\ cur_idx < num_items /\ Chain' = Ins(Chain, arg, cur_idx + 2)
    BY <1>11, InsertHereKeeps
  <2>2. arg \in Node /\ Fresh(arg)
    BY <1>11 DEF InsertHere, IInv, Pending
  <2>3. Cursor = saved /\ Cursor' = IF saved > cur_idx THEN saved + 1 ELSE saved
    BY <1>11 DEF InsertHere, End, Cursor
  <2>4. cur_idx + 2 \in 1 .. num_items + 1 /\ cur_idx + 2 > 1 /\ (cur_idx + 2) - 2 = cur_idx
    BY <1>t, <2>1
  <2>5. Cursor' = IF Cursor > (cur_idx + 2) - 2 THEN Cursor + 1 ELSE Cursor
    BY ONLY <2>3, <2>4
  <2> QED
    BY <2>1, <2>2, <2>4, <2>5, MapsInsert
<1>12. ASSUME PopHere PROVE Maps
  <2>1. /\ num_items > 0 /\ cur_idx < num_items /\ Chain' = Del(Chain, cur_idx + 1)
        /\ at' = IF cur_idx = num_items - 1 /\ cur_idx # 0 THEN cur_idx - 1 ELSE cur_idx
    BY <1>12, PopHereKeeps
  <2>2. /\ Cursor = saved
        /\ Cursor' = IF saved = cur_idx THEN at'
                     ELSE IF saved > cur_idx THEN saved - 1 ELSE saved
    BY <1>12 DEF PopHere, End, Cursor
  <2>3. cur_idx \in 0 .. num_items - 1
    BY <1>t, <2>1
  <2>4. Cursor < num_items
    BY <1>12, <2>2 DEF PopHere, IInv, Pending
  <2>5. Cursor' = IF cur_idx = Cursor
                  THEN IF Cursor > 0 /\ Cursor = num_items - 1 THEN Cursor - 1 ELSE Cursor
                  ELSE IF Cursor > cur_idx THEN Cursor - 1 ELSE Cursor
    BY <1>t, <2>1, <2>2
  <2> QED
    BY <2>1, <2>3, <2>4, <2>5, MapsRemove
<1>13. ASSUME UNCHANGED vars PROVE Maps
  BY <1>13 DEF Maps, Chain, GetAt, Cursor, vars, pointers
<1>0. \A i \in -num_items .. num_items - 1 : i \in Int
  OBVIOUS
<1> QED
  BY <1>0, <1>1, <1>2, <1>3, <1>4, <1>5, <1>6, <1>7, <1>8, <1>9, <1>10, <1>11,
     <1>12, <1>13 DEF Next

\* Every list is the sequence with a cursor that DListSpec promises: a macro
\* inserts, removes or moves what its name says, whatever it does to current on
\* its way.
THEOREM Refinement == Spec => ListRefined
<1>1. Maps => [Abstract!Next]_(Abstract!vars)
  BY DEF Maps, Abstract!vars, Cursor
<1>2. IInv /\ [Next]_vars => [Abstract!Next]_(Abstract!vars)
  BY <1>1, NextMaps
<1> QED
  BY InitIInv, NextIInv, InitMaps, <1>2, PTL DEF Spec, ListRefined, Abstract!Spec

=============================================================================
