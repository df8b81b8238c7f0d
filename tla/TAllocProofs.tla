---------------------------- MODULE TAllocProofs ----------------------------
(***************************************************************************)
(* The allocator of talloc.c keeps its chunks in order and its promises,   *)
(* for any memory, requests and limits, also when a block has grown over   *)
(* FirstFreeChunk, up to the search that begins there.  First what each    *)
(* function does to a heap, then what each call of the user does, then the *)
(* theorems.                                                               *)
(***************************************************************************)
EXTENDS TAlloc, WellFoundedInduction, TLAPS

\* What Min chooses.
LEMMA MinIs ==
  ASSUME NEW S, S \subseteq Nat, S # {}
  PROVE  Min(S) \in S /\ \A a \in S : Min(S) <= a
<1> DEFINE Less == {ss \in Nat \X Nat : ss[1] < ss[2]}
<1>1. OpToRel(<, Nat) = Less
  BY Zenon DEF OpToRel
<1>2. IsWellFoundedOn(Less, Nat)
  BY <1>1, NatLessThanWellFounded, Zenon
<1>3. \A x, y \in Nat : <<y, x>> \notin Less => x <= y
  <2>1. \A x, y \in Nat : y < x \/ x <= y
    OBVIOUS
  <2> QED
    BY <2>1, Zenon
<1> HIDE DEF Less
<1>4. PICK x \in S : \A y \in S : <<y, x>> \notin Less
  BY <1>2, WFMin, Zenon
<1>5. \A y \in S : x <= y
  BY <1>3, <1>4
<1> QED
  BY <1>5, Zenon DEF Min

Record == [headers : SUBSET Addr, end : Addr, used : SUBSET Addr,
           size : [Addr -> Nat], prev : [Addr -> Nat], first : Addr]

\* A heap whose chunks tile it, also where FirstFreeChunk is not yet right.
Wf(h) == h \in Record /\ h.used \subseteq Chunks(h) /\ Tiles(h)

\* The chunks of h at S are the same in g.
Same(h, g, S) == \A a \in S : a \in Chunks(g) /\ g.size[a] = h.size[a]

\* What is known of one chunk: it is in front of the end chunk, and no header is inside of it.
LEMMA ChunkIs ==
  ASSUME NEW h, Wf(h), NEW m \in Chunks(h)
  PROVE  /\ m \in Addr /\ m \in Nat /\ h.end \in Addr /\ h.end \in Nat /\ m < h.end
         /\ m \in h.headers /\ h.headers \subseteq Addr /\ h.headers \subseteq Nat
         /\ h.size[m] \in Nat /\ h.size[m] > 0
         /\ NextChunk(h, m) = m + h.size[m]
         /\ m + h.size[m] \in h.headers /\ m + h.size[m] \in Nat
         /\ h.prev[m + h.size[m]] = h.size[m]
         /\ \A b \in h.headers : b <= m \/ b >= m + h.size[m]
<1>1. /\ h.headers \subseteq Addr /\ h.end \in Addr /\ h.size \in [Addr -> Nat]
  BY DEF Wf, Record
<1>2. h.headers \subseteq Nat /\ h.end \in Nat
  BY <1>1, TAllocAssumption DEF Addr
<1>3. m \in h.headers /\ m \in Addr /\ m \in Nat
  BY <1>1, <1>2 DEF Chunks
<1>4. h.size[m] \in Nat
  BY <1>1, <1>3
<1>5. /\ m < h.end /\ h.size[m] > 0
      /\ m + h.size[m] \in h.headers /\ h.prev[m + h.size[m]] = h.size[m]
      /\ \A b \in h.headers : b <= m \/ b >= m + h.size[m]
  BY DEF Wf, Tiles, NextChunk
<1> QED
  BY <1>1, <1>2, <1>3, <1>4, <1>5 DEF NextChunk

\* A merge makes one chunk of two, and touches no other.
LEMMA AbsorbIs ==
  ASSUME NEW h, Wf(h), NEW m \in Chunks(h), NextChunk(h, m) \in Unused(h)
  PROVE  LET g == Absorb(h, m)
             next == NextChunk(h, m)
         IN  /\ Wf(g) /\ Chunks(g) = Chunks(h) \ {next}
             /\ g.end = h.end /\ g.used = h.used /\ g.first = h.first
             /\ g.size[m] = h.size[m] + h.size[next]
             /\ Same(h, g, Chunks(h) \ {m, next})
<1> DEFINE next == NextChunk(h, m)
           size == h.size[m] + h.size[next]
           g == Absorb(h, m)
<1>0. h \in Record /\ h.used \subseteq Chunks(h) /\ Tiles(h)
  BY DEF Wf
<1>a. next \in Chunks(h) /\ next \notin h.used
  BY DEF Unused
<1>b. /\ m \in Addr /\ m \in Nat /\ m \in h.headers /\ h.end \in Addr /\ h.end \in Nat
      /\ h.size[m] \in Nat /\ h.size[m] > 0 /\ next = m + h.size[m]
      /\ h.headers \subseteq Addr /\ h.headers \subseteq Nat
      /\ \A b \in h.headers : b <= m \/ b >= next
  BY ChunkIs
<1>c. /\ next \in Addr /\ next \in Nat /\ next < h.end /\ next \in h.headers
      /\ h.size[next] \in Nat /\ h.size[next] > 0 /\ next + h.size[next] \in h.headers
      /\ \A b \in h.headers : b <= next \/ b >= next + h.size[next]
  BY <1>a, ChunkIs
<1>d. size \in Nat /\ m + size = next + h.size[next] /\ m + size > next /\ next # m
  BY <1>b, <1>c
<1>1. /\ h \in Record /\ m \in Addr /\ next \in Addr /\ h.end \in Addr 
      /\ size \in Nat /\ m + size \in Addr /\ next # m /\ m + size # next /\ m + size \in Nat
  BY <1>0, <1>b, <1>c, <1>d
<1> HIDE DEF next
<1>2. /\ g.headers = h.headers \ {next} /\ g.end = h.end
      /\ g.used = h.used /\ g.first = h.first
      /\ g.size = [h.size EXCEPT ![m] = size, ![next] = 0]
      /\ g.prev = [h.prev EXCEPT ![next] = 0, ![m + size] = size]
      /\ g \in Record
  BY <1>1 DEF Absorb, Record, next
<1> HIDE DEF g, size
<1>3. /\ g.size[m] = size /\ g.size[next] = 0
      /\ \A a \in Addr \ {m, next} : g.size[a] = h.size[a]
      /\ g.prev[next] = 0 /\ g.prev[m + size] = size
      /\ \A a \in Addr \ {next, m + size} : g.prev[a] = h.prev[a]
  BY <1>1, <1>2 DEF Record
<1>4. Chunks(g) = Chunks(h) \ {next}
  BY <1>2, <1>c DEF Chunks
<1>5. Same(h, g, Chunks(h) \ {m, next})
  BY <1>3, <1>4, <1>b DEF Same, Chunks
<1>6. Tiles(g)
  <2>1. 0 \in g.headers /\ g.end \in g.headers /\ g.prev[0] = 0 /\ g.size[g.end] = 0
    BY <1>0, <1>2, <1>3, <1>b, <1>c, <1>d, TAllocAssumption DEF Tiles, Addr
  <2> SUFFICES ASSUME NEW a \in Chunks(g)
               PROVE  /\ a < g.end /\ g.size[a] > 0
                      /\ NextChunk(g, a) \in g.headers
                      /\ g.prev[NextChunk(g, a)] = g.size[a]
                      /\ \A b \in g.headers : b <= a \/ b >= NextChunk(g, a)
    BY <2>1 DEF Tiles
  <2>2. CASE a = m
    <3>1. g.size[a] = size /\ NextChunk(g, a) = m + size /\ m + size \in g.headers
      BY <1>2, <1>3, <1>c, <1>d, <2>2 DEF NextChunk
    <3> QED
      BY <3>1, <1>2, <1>3, <1>b, <1>c, <1>d, <2>2
  <2>3. CASE a # m
    <3>1. a \in Chunks(h) /\ a # next /\ g.size[a] = h.size[a] /\ a \in Addr /\ a \in Nat
      BY <1>3, <1>4, <2>3, <1>b DEF Chunks
    <3>2. /\ a < h.end /\ h.size[a] > 0 /\ a + h.size[a] \in h.headers /\ a \in h.headers
          /\ h.prev[a + h.size[a]] = h.size[a] /\ h.size[a] \in Nat
          /\ \A b \in h.headers : b <= a \/ b >= a + h.size[a]
      BY <3>1, ChunkIs
    <3>3. a + h.size[a] # next /\ a + h.size[a] # m + size
      <4>1. /\ a <= m \/ a >= next
            /\ a <= next \/ a >= next + h.size[next]
            /\ m <= a \/ m >= a + h.size[a]
            /\ next <= a \/ next >= a + h.size[a]
        BY <3>1, <3>2, <1>b, <1>c
      <4> QED
        BY <4>1, <3>1, <3>2, <1>b, <1>c, <1>d, <2>3
    <3>4. NextChunk(g, a) = a + h.size[a] /\ a + h.size[a] \in Addr
      BY <3>1, <3>2, <1>b DEF NextChunk
    <3> QED
      BY <3>1, <3>2, <3>3, <3>4, <1>2, <1>3
  <2> QED
    BY <2>2, <2>3
<1>7. Wf(g)
  BY <1>0, <1>2, <1>4, <1>6, <1>a DEF Wf
<1> QED
  BY <1>2, <1>3, <1>4, <1>5, <1>7 DEF g, next, size

\* g is h with m split in a chunk of n units, unused, and the rest.
SplitInto(h, g, m, n) ==
  /\ Wf(g) /\ Chunks(g) = Chunks(h) \cup {m + n} /\ m + n \notin h.headers
  /\ g.end = h.end /\ g.used = h.used \ {m}
  /\ g.first = (IF h.first > m + n THEN m + n ELSE h.first)
  /\ g.size[m] = n /\ m + n # m
  /\ Same(h, g, Chunks(h) \ {m})

\* mem_split_chunk keeps a heap well formed when the rest is worth a chunk.
LEMMA SplitIs ==
  ASSUME NEW h, Wf(h), NEW m \in Chunks(h), NEW n \in Nat, n > 0, h.size[m] - n >= SplitAt
  PROVE  SplitInto(h, Split(h, m, n), m, n)
<1> DEFINE next == NextChunk(h, m)
           rest == h.size[m] - n
           g == Split(h, m, n)
<1>0. h \in Record /\ h.used \subseteq Chunks(h) /\ Tiles(h)
  BY DEF Wf
<1>a. /\ m \in Addr /\ m \in Nat /\ m \in h.headers /\ h.end \in Addr /\ h.end \in Nat
      /\ h.size[m] \in Nat /\ next = m + h.size[m] /\ next \in h.headers
      /\ h.headers \subseteq Addr /\ h.headers \subseteq Nat /\ m < h.end
      /\ \A b \in h.headers : b <= m \/ b >= next
  BY ChunkIs
<1>b. rest \in Nat /\ rest > 0 /\ rest >= SplitAt /\ m + n + rest = next
  BY <1>a, TAllocAssumption
<1>c. next <= h.end /\ next \in Nat /\ next \in Addr
  BY <1>a, <1>0 DEF Tiles
<1>d. m + n \in Nat /\ m < m + n /\ m + n < next /\ m + n < h.end /\ m + n \in Addr
  BY <1>a, <1>b, <1>c, TAllocAssumption DEF Addr
<1>e. m + n \notin h.headers
  BY <1>a, <1>d
<1> HIDE DEF next
<1>2. /\ g.headers = h.headers \cup {m + n} /\ g.end = h.end
      /\ g.used = h.used \ {m} /\ g.first = (IF h.first > m + n THEN m + n ELSE h.first)
      /\ g.size = [h.size EXCEPT ![m] = n, ![m + n] = rest]
      /\ g.prev = [h.prev EXCEPT ![m + n] = n, ![next] = rest]
      /\ g \in Record
  <2> DEFINE f == [h EXCEPT !.headers = @ \cup {m + n}, !.used = @ \ {m},
                            !.size = [@ EXCEPT ![m] = n, ![m + n] = rest],
                            !.prev = [@ EXCEPT ![m + n] = n, ![next] = rest]]
  <2>1. g = Lower(f, m + n)
    BY <1>a, <1>b, TAllocAssumption DEF Split, next
  <2>2. /\ f.headers = h.headers \cup {m + n} /\ f.end = h.end
        /\ f.used = h.used \ {m} /\ f.first = h.first
        /\ f.size = [h.size EXCEPT ![m] = n, ![m + n] = rest]
        /\ f.prev = [h.prev EXCEPT ![m + n] = n, ![next] = rest]
        /\ f \in Record
    BY <1>0, <1>a, <1>b, <1>c, <1>d DEF Record
  <2> HIDE DEF f, g, rest
  <2> QED
    BY <2>1, <2>2, <1>d DEF Lower, Record
<1> HIDE DEF g, rest
<1>3. /\ g.size[m] = n /\ g.size[m + n] = rest
      /\ \A a \in Addr \ {m, m + n} : g.size[a] = h.size[a]
      /\ g.prev[m + n] = n /\ g.prev[next] = rest
      /\ \A a \in Addr \ {m + n, next} : g.prev[a] = h.prev[a]
  BY <1>0, <1>a, <1>b, <1>c, <1>d, <1>2 DEF Record
<1>4. Chunks(g) = Chunks(h) \cup {m + n}
  BY <1>2, <1>d DEF Chunks
<1>5. Same(h, g, Chunks(h) \ {m})
  BY <1>3, <1>4, <1>a, <1>e DEF Same, Chunks
<1>6. Tiles(g)
  <2>1. 0 \in g.headers /\ g.end \in g.headers /\ g.prev[0] = 0 /\ g.size[g.end] = 0
    BY <1>0, <1>2, <1>3, <1>a, <1>b, <1>c, <1>d, TAllocAssumption DEF Tiles, Addr
  <2> SUFFICES ASSUME NEW a \in Chunks(g)
               PROVE  /\ a < g.end /\ g.size[a] > 0
                      /\ NextChunk(g, a) \in g.headers
                      /\ g.prev[NextChunk(g, a)] = g.size[a]
                      /\ \A b \in g.headers : b <= a \/ b >= NextChunk(g, a)
    BY <2>1 DEF Tiles
  <2>2. CASE a = m
    <3>1. g.size[a] = n /\ NextChunk(g, a) = m + n
      BY <1>3, <2>2 DEF NextChunk
    <3> QED
      BY <3>1, <1>2, <1>3, <1>a, <1>b, <1>d, <2>2
  <2>3. CASE a = m + n
    <3>1. g.size[a] = rest /\ NextChunk(g, a) = next
      BY <1>3, <1>b, <2>3 DEF NextChunk
    <3> QED
      BY <3>1, <1>2, <1>3, <1>a, <1>b, <1>d, <2>3
  <2>4. CASE a # m /\ a # m + n
    <3>1. a \in Chunks(h) /\ g.size[a] = h.size[a] /\ a \in Addr /\ a \in Nat
      BY <1>3, <1>4, <2>4, <1>a DEF Chunks
    <3>2. /\ a < h.end /\ h.size[a] > 0 /\ a + h.size[a] \in h.headers /\ a \in h.headers
          /\ h.prev[a + h.size[a]] = h.size[a] /\ h.size[a] \in Nat
          /\ \A b \in h.headers : b <= a \/ b >= a + h.size[a]
      BY <3>1, ChunkIs
    <3>3. /\ a + h.size[a] # m + n /\ a + h.size[a] # next
          /\ m + n <= a \/ m + n >= a + h.size[a]
      <4>1. /\ a <= m \/ a >= next
            /\ m <= a \/ m >= a + h.size[a]
        BY <3>1, <3>2, <1>a
      <4>2. a + h.size[a] # m + n
        BY <3>2, <1>e
      <4> QED
        BY <4>1, <4>2, <3>1, <3>2, <1>a, <1>c, <1>d, <2>4
    <3>4. NextChunk(g, a) = a + h.size[a] /\ a + h.size[a] \in Addr
      BY <3>1, <3>2, <1>a DEF NextChunk
    <3> QED
      BY <3>1, <3>2, <3>3, <3>4, <1>2, <1>3
  <2> QED
    BY <2>2, <2>3, <2>4
<1>7. Wf(g)
  BY <1>0, <1>2, <1>4, <1>6 DEF Wf
<1> QED
  BY <1>2, <1>3, <1>4, <1>5, <1>7, <1>d, <1>e DEF g, SplitInto

\* The chunks of h and g are the same, and so is the break.
Alike(h, g) == Chunks(g) = Chunks(h) /\ g.end = h.end /\ Same(h, g, Chunks(h))

\* The used bit of a chunk does not concern the others.
LEMMA UseIs ==
  ASSUME NEW h, Wf(h), NEW m \in Chunks(h)
  PROVE  LET g == Use(h, m)
         IN  Wf(g) /\ Alike(h, g) /\ g.used = h.used \cup {m} /\ g.first = h.first
<1> DEFINE g == Use(h, m)
<1>1. h \in Record /\ h.used \subseteq Chunks(h) /\ Tiles(h) /\ m \in Addr
  BY ChunkIs DEF Wf
<1>2. /\ g \in Record /\ g.headers = h.headers /\ g.end = h.end /\ g.size = h.size
      /\ g.prev = h.prev /\ g.first = h.first /\ g.used = h.used \cup {m}
  BY <1>1 DEF Use, Record
<1> HIDE DEF g
<1>3. Chunks(g) = Chunks(h)
  BY <1>2 DEF Chunks
<1>4. Tiles(g)
  BY <1>1, <1>2, <1>3 DEF Tiles, NextChunk
<1> QED
  BY <1>1, <1>2, <1>3, <1>4 DEF Wf, Alike, Same, g

\* Nor does the clearing of the used bit.
LEMMA UnusedIs ==
  ASSUME NEW h, Wf(h), NEW m \in Chunks(h)
  PROVE  LET g == [h EXCEPT !.used = @ \ {m}]
         IN  Wf(g) /\ Alike(h, g) /\ g.used = h.used \ {m} /\ g.first = h.first
<1> DEFINE g == [h EXCEPT !.used = @ \ {m}]
<1>1. h \in Record /\ h.used \subseteq Chunks(h) /\ Tiles(h)
  BY DEF Wf
<1>2. /\ g \in Record /\ g.headers = h.headers /\ g.end = h.end /\ g.size = h.size
      /\ g.prev = h.prev /\ g.first = h.first /\ g.used = h.used \ {m}
  BY <1>1 DEF Record
<1> HIDE DEF g
<1>3. Chunks(g) = Chunks(h)
  BY <1>2 DEF Chunks
<1>4. Tiles(g)
  BY <1>1, <1>2, <1>3 DEF Tiles, NextChunk
<1>5. Wf(g) /\ Alike(h, g)
  BY <1>1, <1>2, <1>3, <1>4 DEF Wf, Alike, Same
<1> QED
  BY <1>2, <1>5 DEF g

\* Nor does FirstFreeChunk.
LEMMA LowerIs ==
  ASSUME NEW h, Wf(h), NEW m \in Chunks(h)
  PROVE  LET g == Lower(h, m)
         IN  /\ Wf(g) /\ Alike(h, g) /\ g.used = h.used
             /\ g.first = (IF h.first > m THEN m ELSE h.first)
<1> DEFINE g == Lower(h, m)
<1>1. h \in Record /\ h.used \subseteq Chunks(h) /\ Tiles(h) /\ m \in Addr
  BY ChunkIs DEF Wf
<1>2. /\ g \in Record /\ g.headers = h.headers /\ g.end = h.end /\ g.size = h.size
      /\ g.prev = h.prev /\ g.used = h.used
      /\ g.first = (IF h.first > m THEN m ELSE h.first)
  BY <1>1 DEF Lower, Record
<1> HIDE DEF g
<1>3. Chunks(g) = Chunks(h)
  BY <1>2 DEF Chunks
<1>4. Tiles(g)
  BY <1>1, <1>2, <1>3 DEF Tiles, NextChunk
<1>5. Wf(g) /\ Alike(h, g)
  BY <1>1, <1>2, <1>3, <1>4 DEF Wf, Alike, Same
<1> QED
  BY <1>2, <1>5 DEF g

\* prev_chunk_size leads back to the chunk that ends where this one begins.
LEMMA BeforeIs ==
  ASSUME NEW h, Wf(h), NEW m \in Chunks(h), h.prev[m] # 0
  PROVE  LET q == m - h.prev[m]
         IN  q \in Chunks(h) /\ q < m /\ NextChunk(h, q) = m
<1> DEFINE S == {d \in 1 .. m : m - d \in h.headers}
<1>1. /\ h.prev[0] = 0 /\ 0 \in h.headers
      /\ m \in Nat /\ m < h.end /\ h.end \in Nat /\ m \in h.headers /\ h.headers \subseteq Nat
  BY ChunkIs DEF Wf, Tiles
<1>2. m > 0 /\ m \in S
  BY <1>1
<1>3. S \subseteq Nat /\ S # {}
  BY <1>1, <1>2
<1>4. Min(S) \in S /\ \A d \in S : Min(S) <= d
  BY <1>3, MinIs, Zenon
<1> DEFINE q == m - Min(S)
<1>5. q \in h.headers /\ q < m /\ q \in Nat /\ Min(S) \in Nat
  BY <1>1, <1>4
<1>6. q \in Chunks(h)
  BY <1>1, <1>5 DEF Chunks
<1>7. /\ q + h.size[q] \in h.headers /\ h.size[q] \in Nat /\ h.size[q] > 0
      /\ h.prev[q + h.size[q]] = h.size[q]
      /\ m <= q \/ m >= q + h.size[q]
  BY <1>1, <1>6, ChunkIs
<1>8. q + h.size[q] = m
  <2> SUFFICES ASSUME q + h.size[q] < m PROVE FALSE
    BY <1>1, <1>5, <1>7
  <2> DEFINE d == m - (q + h.size[q])
  <2>1. d \in S
    BY <1>1, <1>5, <1>7
  <2>2. Min(S) <= d
    BY <1>4, <2>1
  <2> HIDE DEF S
  <2> QED
    BY <2>2, <1>1, <1>5, <1>7
<1>9. q = m - h.prev[m]
  BY <1>1, <1>5, <1>7, <1>8
<1> QED
  BY <1>5, <1>6, <1>8, <1>9 DEF NextChunk

\* What mem_merge_chunks does: no block is touched, the chunk m is in p then,
\* and no header in front of p is lost.
LEMMA MergeIs ==
  ASSUME NEW h, Wf(h), NEW m \in Unused(h)
  PROVE  LET p == Merged(h, m)
             g == Merge(h, m)
         IN  /\ Wf(g) /\ p \in Unused(g) /\ p <= m /\ p \in Unused(h)
             /\ g.used = h.used /\ g.first = h.first /\ g.end = h.end
             /\ Same(h, g, h.used)
             /\ Chunks(g) \subseteq Chunks(h)
             /\ \A a \in Chunks(h) : a \in Chunks(g) \/ a > p
<1> DEFINE p == Merged(h, m)
           f == IF p = m THEN h ELSE Absorb(h, p)
           g == Merge(h, m)
<1>1. h.used \subseteq Chunks(h) /\ m \in Chunks(h) /\ m \notin h.used
  BY DEF Wf, Unused
<1>2. m \in Nat /\ Chunks(h) \subseteq Nat
  BY <1>1, ChunkIs
<1>3. p = m \/ (p \in Unused(h) /\ p < m /\ NextChunk(h, p) = m)
  BY <1>1, BeforeIs DEF Merged
<1>4. p \in Unused(h) /\ p <= m /\ p \in Nat /\ p \in Chunks(h) /\ p \notin h.used
  BY <1>1, <1>2, <1>3 DEF Unused
<1>5. g = MergeNext(f, p)
  BY DEF Merge
<1> HIDE DEF g, p
<1>6. /\ Wf(f) /\ p \in Unused(f) /\ f.used = h.used /\ f.first = h.first /\ f.end = h.end
      /\ Same(h, f, h.used) /\ Chunks(f) \subseteq Chunks(h)
      /\ \A a \in Chunks(h) : a \in Chunks(f) \/ a > p
  <2>1. CASE p = m
    BY <1>1, <1>4, <2>1 DEF Same
  <2>2. CASE p # m
    <3>1. f = Absorb(h, p) /\ NextChunk(h, p) = m /\ m > p
      BY <1>3, <2>2, <1>2, <1>4
    <3> HIDE DEF f
    <3>2. /\ Wf(f) /\ Chunks(f) = Chunks(h) \ {m}
          /\ f.end = h.end /\ f.used = h.used /\ f.first = h.first
          /\ Same(h, f, Chunks(h) \ {p, m})
      BY <3>1, <1>4, AbsorbIs
    <3>3. Same(h, f, h.used)
      BY <3>2, <1>1, <1>4 DEF Same
    <3> QED
      BY <3>1, <3>2, <3>3, <1>4, <2>2 DEF Unused
  <2> QED
    BY <2>1, <2>2
<1> HIDE DEF f
<1>7. CASE NextChunk(f, p) \notin Unused(f)
  <2>1. g = f
    BY <1>5, <1>7 DEF MergeNext
  <2> QED
    BY <2>1, <1>4, <1>6 DEF p, g
<1>8. CASE NextChunk(f, p) \in Unused(f)
  <2> DEFINE next == NextChunk(f, p)
  <2>1. g = Absorb(f, p) /\ p \in Chunks(f) /\ next \in Chunks(f) /\ next \notin f.used
    BY <1>5, <1>6, <1>8 DEF MergeNext, Unused
  <2>2. next > p /\ next # p
    BY <2>1, <1>6, <1>4, ChunkIs
  <2> HIDE DEF next
  <2>3. /\ Wf(g) /\ Chunks(g) = Chunks(f) \ {next}
        /\ g.end = f.end /\ g.used = f.used /\ g.first = f.first
        /\ Same(f, g, Chunks(f) \ {p, next})
    BY <2>1, <1>6, <1>8, AbsorbIs DEF next
  <2>4. p \in Unused(g)
    BY <1>4, <1>6, <2>1, <2>2, <2>3 DEF Unused
  <2>5. Same(h, g, h.used)
    <3> SUFFICES ASSUME NEW a \in h.used PROVE a \in Chunks(g) /\ g.size[a] = h.size[a]
      BY DEF Same
    <3>1. a \in Chunks(f) /\ f.size[a] = h.size[a]
      BY <1>6 DEF Same
    <3>2. a # p /\ a # next
      BY <1>4, <1>6, <2>1
    <3> QED
      BY <3>1, <3>2, <2>3 DEF Same
  <2>6. \A a \in Chunks(h) : a \in Chunks(g) \/ a > p
    BY <1>6, <2>2, <2>3
  <2> QED
    BY <1>4, <1>6, <2>3, <2>4, <2>5, <2>6 DEF p, g
<1> QED
  BY <1>7, <1>8

\* Where the search begins, if it begins at a chunk of h, is a chunk of g too.
Leads(h, g) == h.first \in h.headers => g.first \in g.headers

\* mem_release: both merges together leave FirstFreeChunk in front of every unused
\* chunk, and at a chunk if it was at one.
LEMMA FreeIs ==
  ASSUME NEW h, Wf(h), Finds(h), NEW m \in h.used
  PROVE  LET g == Free(h, m)
         IN  Wf(g) /\ Finds(g) /\ g.used = h.used \ {m} /\ Same(h, g, g.used) /\ Leads(h, g)
<1> DEFINE u == [h EXCEPT !.used = @ \ {m}]
           p == Merged(u, m)
           f == Merge(u, m)
           g == Free(h, m)
<1>1. m \in Chunks(h)
  BY DEF Wf
<1>2. Wf(u) /\ Alike(h, u) /\ u.used = h.used \ {m} /\ u.first = h.first
  BY <1>1, UnusedIs
<1>3. g = Lower(f, p)
  BY DEF Free
<1> HIDE DEF u, g
<1>4. m \in Unused(u) /\ Unused(u) = Unused(h) \cup {m}
  BY <1>1, <1>2 DEF Alike, Unused
<1>5. /\ Wf(f) /\ p \in Unused(f) /\ p <= m /\ p \in Unused(u)
      /\ f.used = u.used /\ f.first = u.first /\ f.end = u.end
      /\ Same(u, f, u.used)
      /\ Chunks(f) \subseteq Chunks(u)
      /\ \A a \in Chunks(u) : a \in Chunks(f) \/ a > p
  BY <1>2, <1>4, MergeIs
<1> HIDE DEF f, p
<1>6. p \in Chunks(f) /\ Chunks(f) \subseteq Nat /\ p \in Nat /\ p < f.end /\ f.end \in Nat
  BY <1>5, ChunkIs DEF Unused
<1>7. /\ Wf(g) /\ Alike(f, g) /\ g.used = f.used
      /\ g.first = (IF f.first > p THEN p ELSE f.first)
  BY <1>3, <1>5, <1>6, LowerIs
<1>8. h.first \in Nat /\ h.first < h.end /\ \A a \in Unused(h) : a >= h.first
  BY TAllocAssumption DEF Finds, Wf, Record, Addr
<1>9. Finds(g)
  <2>1. /\ g.first \in Nat /\ g.first <= p /\ g.first <= h.first /\ g.end = f.end
    BY <1>2, <1>5, <1>6, <1>7, <1>8 DEF Alike
  <2>2. ASSUME NEW a \in Unused(g) PROVE a >= g.first
    <3>1. a \in Unused(u) /\ a \in Nat
      BY <1>5, <1>6, <1>7 DEF Alike, Unused
    <3>2. a >= h.first \/ a = m
      BY <3>1, <1>4, <1>8
    <3> QED
      BY <3>1, <3>2, <2>1, <1>5, <1>6, <1>8
  <2>3. g.first < g.end
    BY <2>1, <1>6
  <2> QED
    BY <2>2, <2>3 DEF Finds
<1>a. Leads(h, g)
  <2> SUFFICES ASSUME h.first \in h.headers PROVE g.first \in Chunks(g)
    BY DEF Leads, Chunks
  <2>1. h.first \in Chunks(u)
    <3>1. h.first # h.end
      <4>1. h.end \in Nat
        BY <1>1, ChunkIs
      <4> QED
        BY <4>1, <1>8
    <3> QED
      BY <3>1, <1>2 DEF Alike, Chunks
  <2>2. h.first \in Chunks(f) \/ h.first > p
    BY <2>1, <1>5
  <2> QED
    BY <2>2, <1>2, <1>5, <1>6, <1>7 DEF Alike
<1>10. Same(h, g, g.used)
  <2> SUFFICES ASSUME NEW a \in g.used PROVE a \in Chunks(g) /\ g.size[a] = h.size[a]
    BY DEF Same
  <2>1. a \in Chunks(f) /\ f.size[a] = u.size[a] /\ a \in h.used
    BY <1>2, <1>5, <1>7 DEF Same
  <2>2. a \in Chunks(h)
    BY <2>1 DEF Wf
  <2> QED
    BY <2>1, <2>2, <1>2, <1>7 DEF Alike, Same
<1> QED
  BY <1>2, <1>5, <1>7, <1>9, <1>a, <1>10 DEF g

\* mem_increase, before its split: the end chunk becomes a chunk.
LEMMA GrownIs ==
  ASSUME NEW h, Wf(h), NEW n \in Nat, n > 0, h.end + n <= Limit
  PROVE  LET g == Grown(h, n)
         IN  /\ Wf(g) /\ Chunks(g) = Chunks(h) \cup {h.end} /\ h.end \notin Chunks(h)
             /\ g.used = h.used /\ g.first = h.first
             /\ g.size[h.end] = n
             /\ Same(h, g, Chunks(h))
<1> DEFINE g == Grown(h, n)
           m == h.end
<1>0. /\ h \in Record /\ h.used \subseteq Chunks(h) /\ Tiles(h)
      /\ m \in Addr /\ h.headers \subseteq Addr
  BY DEF Wf, Record
<1>1. m \in Nat /\ m + n \in Nat /\ m + n \in Addr /\ h.headers \subseteq Nat
  BY <1>0, TAllocAssumption DEF Addr
<1>2. m \in h.headers /\ 0 \in h.headers /\ h.prev[0] = 0
  BY <1>0 DEF Tiles
<1>3. \A b \in h.headers : b <= m
  <2>1. \A b \in Chunks(h) : b < m
    BY <1>0 DEF Tiles
  <2> QED
    BY <2>1, <1>1 DEF Chunks
<1> HIDE DEF m
<1>4. /\ g \in Record /\ g.headers = h.headers \cup {m + n} /\ g.end = m + n
      /\ g.used = h.used /\ g.first = h.first
      /\ g.size = [h.size EXCEPT ![m] = n, ![m + n] = 0] /\ g.prev = [h.prev EXCEPT ![m + n] = n]
  BY <1>0, <1>1 DEF Grown, Record, m
<1> HIDE DEF g
<1>5. /\ g.size[m] = n /\ g.size[m + n] = 0
      /\ \A a \in Addr \ {m, m + n} : g.size[a] = h.size[a]
      /\ g.prev[m + n] = n /\ \A a \in Addr \ {m + n} : g.prev[a] = h.prev[a]
  BY <1>0, <1>1, <1>4 DEF Record
<1>6. m + n \notin h.headers /\ m # m + n
  BY <1>1, <1>3
<1>7. Chunks(g) = Chunks(h) \cup {m} /\ m \notin Chunks(h)
  BY <1>2, <1>4, <1>6 DEF Chunks, m
<1>8. Same(h, g, Chunks(h))
  BY <1>0, <1>5, <1>6, <1>7 DEF Same, Chunks
<1>9. Tiles(g)
  <2>1. 0 \in g.headers /\ g.end \in g.headers /\ g.prev[0] = 0 /\ g.size[g.end] = 0
    BY <1>0, <1>1, <1>2, <1>4, <1>5
  <2> SUFFICES ASSUME NEW a \in Chunks(g)
               PROVE  /\ a < g.end /\ g.size[a] > 0
                      /\ NextChunk(g, a) \in g.headers
                      /\ g.prev[NextChunk(g, a)] = g.size[a]
                      /\ \A b \in g.headers : b <= a \/ b >= NextChunk(g, a)
    BY <2>1 DEF Tiles
  <2>2. CASE a = m
    <3>1. g.size[a] = n /\ NextChunk(g, a) = m + n
      BY <1>5, <2>2 DEF NextChunk
    <3> QED
      BY <3>1, <1>1, <1>3, <1>4, <1>5, <2>2
  <2>3. CASE a # m
    <3>1. a \in Chunks(h) /\ g.size[a] = h.size[a] /\ a \in h.headers /\ a \in Nat
      BY <1>0, <1>1, <1>5, <1>6, <1>7, <2>3 DEF Chunks
    <3>2. /\ a < h.end /\ h.size[a] > 0 /\ a + h.size[a] \in h.headers
          /\ h.prev[a + h.size[a]] = h.size[a] /\ h.size[a] \in Nat
          /\ \A b \in h.headers : b <= a \/ b >= a + h.size[a]
      BY <3>1, ChunkIs
    <3>3. a < m /\ a + h.size[a] <= m
      BY <3>2, <1>3 DEF m
    <3>4. NextChunk(g, a) = a + h.size[a] /\ a + h.size[a] \in Addr /\ a + h.size[a] # m + n
      BY <3>1, <3>2, <1>0, <1>6 DEF NextChunk
    <3> QED
      BY <3>1, <3>2, <3>3, <3>4, <1>1, <1>4, <1>5
  <2> QED
    BY <2>2, <2>3
<1>10. Wf(g)
  BY <1>0, <1>4, <1>7, <1>9 DEF Wf
<1> QED
  BY <1>4, <1>5, <1>7, <1>8, <1>10 DEF g, m

\* FirstFreeChunk may be any chunk, as far as the tiling goes.
LEMMA FirstIs ==
  ASSUME NEW h, Wf(h), NEW m \in Chunks(h)
  PROVE  LET g == [h EXCEPT !.first = m]
         IN  Wf(g) /\ Alike(h, g) /\ g.used = h.used /\ g.first = m
<1> DEFINE g == [h EXCEPT !.first = m]
<1>1. h \in Record /\ h.used \subseteq Chunks(h) /\ Tiles(h) /\ m \in Addr
  BY ChunkIs DEF Wf
<1>2. /\ g \in Record /\ g.headers = h.headers /\ g.end = h.end /\ g.size = h.size
      /\ g.prev = h.prev /\ g.used = h.used /\ g.first = m
  BY <1>1 DEF Record
<1> HIDE DEF g
<1>3. Chunks(g) = Chunks(h)
  BY <1>2 DEF Chunks
<1>4. Tiles(g)
  BY <1>1, <1>2, <1>3 DEF Tiles, NextChunk
<1>5. Wf(g) /\ Alike(h, g)
  BY <1>1, <1>2, <1>3, <1>4 DEF Wf, Alike, Same
<1> QED
  BY <1>2, <1>5 DEF g

\* Where the first chunk that may be unused is known but for m, which is split and used.
LEMMA SplitUseIs ==
  ASSUME NEW h, Wf(h), NEW m \in Chunks(h), NEW n \in Nat, n > 0, n <= h.size[m],
         h.first < h.end, \A a \in Unused(h) \ {m} : a >= h.first
  PROVE  LET g == Use(Split(h, m, n), m)
         IN  /\ Wf(g) /\ Finds(g) /\ g.used = h.used \cup {m} /\ g.size[m] >= n
             /\ Same(h, g, h.used \ {m}) /\ Leads(h, g)
<1> DEFINE f == Split(h, m, n)
           g == Use(f, m)
<1>0. h.used \subseteq Chunks(h) /\ h.size[m] \in Nat /\ Chunks(h) \subseteq Nat /\ m \in Nat
  BY ChunkIs DEF Wf
<1>a. h.first \in Nat /\ h.end \in Nat
  BY ChunkIs, TAllocAssumption DEF Wf, Record, Addr
<1>b. h.first \in h.headers => h.first \in Chunks(h)
  BY <1>a DEF Chunks
<1>1. CASE h.size[m] - n < SplitAt
  <2>1. f = h
    BY <1>1 DEF Split
  <2> HIDE DEF f
  <2>2. Wf(g) /\ Alike(h, g) /\ g.used = h.used \cup {m} /\ g.first = h.first
    BY <2>1, UseIs
  <2> HIDE DEF g
  <2>3. Finds(g)
    BY <2>2 DEF Finds, Alike, Unused
  <2>4. Same(h, g, h.used \ {m}) /\ g.size[m] = h.size[m]
    BY <2>2, <1>0 DEF Alike, Same
  <2>5. Leads(h, g)
    BY <2>2, <1>b DEF Leads, Alike, Chunks
  <2> QED
    BY <1>0, <2>2, <2>3, <2>4, <2>5 DEF g, f
<1>2. CASE h.size[m] - n >= SplitAt
  <2>1. SplitInto(h, f, m, n)
    BY <1>2, SplitIs
  <2> HIDE DEF f
  <2>2. Wf(g) /\ Alike(f, g) /\ g.used = f.used \cup {m} /\ g.first = f.first
    BY <2>1, UseIs DEF SplitInto
  <2> HIDE DEF g
  <2>3. g.used = h.used \cup {m}
    BY <2>1, <2>2 DEF SplitInto
  <2>4. Finds(g)
    <3>1. g.first <= m + n /\ g.first <= h.first /\ g.first \in Nat /\ g.end = h.end
      BY <2>1, <2>2, <1>0, <1>a DEF Alike, SplitInto
    <3>2. ASSUME NEW a \in Unused(g) PROVE a >= g.first
      <4>1. a = m + n \/ a \in Unused(h) \ {m}
        BY <2>1, <2>2, <2>3 DEF Alike, SplitInto, Unused
      <4> QED
        BY <4>1, <3>1, <1>0, <1>a DEF Unused
    <3>3. g.first < g.end
      BY <3>1, <1>a
    <3> QED
      BY <3>2, <3>3 DEF Finds
  <2>5. Same(h, g, h.used \ {m}) /\ g.size[m] = n
    BY <2>1, <2>2, <1>0 DEF Alike, Same, SplitInto
  <2>6. Leads(h, g)
    <3> SUFFICES ASSUME h.first \in Chunks(h) PROVE g.first \in Chunks(g)
      BY <1>b DEF Leads, Chunks
    <3> QED
      BY <2>1, <2>2 DEF Alike, SplitInto
  <2> QED
    BY <2>2, <2>3, <2>4, <2>5, <2>6 DEF g, f
<1> QED
  BY <1>0, <1>1, <1>2, TAllocAssumption

\* __mem_alloc__: the block is no other's, and has the room; other blocks stay.
LEMMA AllocIs ==
  ASSUME NEW h, Wf(h), Finds(h), h.first \in h.headers, NEW n \in Nat, n > 0, CanAlloc(h, n)
  PROVE  LET m == AllocAt(h, n)
             g == Alloc(h, n)
         IN  /\ Wf(g) /\ Finds(g) /\ m \notin h.used /\ g.used = h.used \cup {m}
             /\ g.size[m] >= n /\ Same(h, g, h.used) /\ g.first \in g.headers
<1> DEFINE m == AllocAt(h, n)
           g == Alloc(h, n)
<1>a. h.end \in Nat /\ h.first < h.end
  BY TAllocAssumption DEF Wf, Record, Addr, Finds
<1>0. /\ h.used \subseteq Chunks(h) /\ Chunks(h) \subseteq Nat
      /\ h.first \in Chunks(h) /\ \A a \in Unused(h) : a >= h.first
  <2>1. h.first \in Chunks(h)
    BY <1>a DEF Chunks
  <2> QED
    BY <2>1, ChunkIs DEF Wf, Finds
<1>1. CASE Fitting(h, n) = {}
  <2> DEFINE more == n + Increase
             f == Grown(h, more)
  <2>1. m = h.end /\ g = Use(Split(f, m, n), m)
    BY <1>1 DEF AllocAt, Alloc
  <2>2. more \in Nat /\ more > 0 /\ more >= n /\ h.end + more <= Limit
    BY <1>0, <1>a, <1>1, TAllocAssumption DEF CanAlloc
  <2> HIDE DEF more, m
  <2>3. /\ Wf(f) /\ Chunks(f) = Chunks(h) \cup {m} /\ m \notin Chunks(h)
        /\ f.used = h.used /\ f.first = h.first /\ f.size[m] = more
        /\ Same(h, f, Chunks(h))
    BY <2>1, <2>2, GrownIs
  <2> HIDE DEF f, g
  <2>4. \A a \in Unused(f) \ {m} : a >= f.first
    BY <2>3, <1>0 DEF Unused
  <2>a. f.first \in f.headers /\ f.first < f.end
    <3>1. f.first \in Chunks(f)
      BY <2>3, <1>0
    <3> QED
      BY <3>1, <2>3, ChunkIs
  <2>5. /\ Wf(g) /\ Finds(g) /\ g.used = f.used \cup {m} /\ g.size[m] >= n
        /\ Same(f, g, f.used \ {m}) /\ Leads(f, g)
    BY <2>1, <2>2, <2>3, <2>4, <2>a, <1>0, SplitUseIs
  <2>6. m \notin h.used /\ Same(h, g, h.used)
    BY <2>3, <2>5, <1>0 DEF Same
  <2> QED
    BY <2>3, <2>5, <2>6, <2>a DEF g, m, Leads
<1>2. CASE Fitting(h, n) # {}
  <2> DEFINE k == Min(Seen(h))
             f == [h EXCEPT !.first = k]
  <2>1. m = Min(Fitting(h, n)) /\ g = Use(Split(f, m, n), m)
    BY <1>2 DEF AllocAt, Alloc
  <2>2. Fitting(h, n) \subseteq Seen(h) /\ Seen(h) = Unused(h) /\ Seen(h) \subseteq Nat
    BY <1>0 DEF Fitting, Seen, Unused
  <2>3. m \in Fitting(h, n) /\ k \in Unused(h) /\ \A a \in Unused(h) : k <= a
    BY <1>2, <2>1, <2>2, MinIs
  <2>4. m \in Unused(h) /\ h.size[m] >= n /\ m \in Chunks(h) /\ m \notin h.used
    BY <2>2, <2>3 DEF Fitting, Unused
  <2> HIDE DEF m, k
  <2>5. k \in Chunks(h) /\ k \in Nat
    BY <2>3, <1>0 DEF Unused
  <2>6. Wf(f) /\ Alike(h, f) /\ f.used = h.used /\ f.first = k
    BY <2>5, FirstIs
  <2> HIDE DEF f, g
  <2>7. /\ m \in Chunks(f) /\ f.size[m] >= n /\ f.first \in Chunks(f)
        /\ \A a \in Unused(f) \ {m} : a >= f.first
    BY <2>3, <2>4, <2>5, <2>6, <1>0 DEF Alike, Same, Unused
  <2>a. f.first \in f.headers /\ f.first < f.end
    BY <2>6, <2>7, ChunkIs
  <2>8. /\ Wf(g) /\ Finds(g) /\ g.used = f.used \cup {m} /\ g.size[m] >= n
        /\ Same(f, g, f.used \ {m}) /\ Leads(f, g)
    <3>1. f.size[m] \in Nat
      BY <2>6, <2>7, ChunkIs
    <3> QED
      BY <2>1, <2>6, <2>7, <2>a, <3>1, SplitUseIs
  <2>9. Same(h, g, h.used)
    BY <2>4, <2>6, <2>8, <1>0 DEF Alike, Same
  <2> QED
    BY <2>4, <2>6, <2>8, <2>9, <2>a DEF g, m, Leads
<1> QED
  BY <1>1, <1>2

\* The arena that mem_init makes.
LEMMA ArenaIs ==
  ASSUME NEW n \in Nat, n + 1 <= Limit
  PROVE  /\ Wf(Arena(n)) /\ Finds(Arena(n)) /\ Arena(n).used = {}
         /\ Arena(n).first \in Arena(n).headers
<1> DEFINE g == Arena(n)
<1>1. 0 \in Addr /\ n + 1 \in Addr /\ 0 # n + 1 /\ n + 1 \in Nat
  BY TAllocAssumption DEF Addr
<1>2. /\ g \in Record /\ g.headers = {0, n + 1} /\ g.end = n + 1 /\ g.used = {} /\ g.first = 0
      /\ g.size = [a \in Addr |-> IF a = 0 THEN n + 1 ELSE 0]
      /\ g.prev = [a \in Addr |-> IF a = n + 1 THEN n + 1 ELSE 0]
  BY <1>1 DEF Arena, Empty, Record
<1> HIDE DEF g
<1>3. Chunks(g) = {0} /\ NextChunk(g, 0) = n + 1
  BY <1>1, <1>2 DEF Chunks, NextChunk
<1>4. Tiles(g)
  BY <1>1, <1>2, <1>3 DEF Tiles
<1>5. Finds(g)
  <2>1. g.first < g.end
    BY <1>1, <1>2
  <2> QED
    BY <2>1, <1>2, <1>3 DEF Finds, Unused
<1> QED
  BY <1>2, <1>4, <1>5 DEF Wf, g

\* What mem_realloc does in place: m takes need units of the next chunk, or all of it.
LEMMA GrowIs ==
  ASSUME NEW h, Wf(h), Finds(h), NEW m \in h.used, NEW need \in Nat, need > 0,
         NextChunk(h, m) \notin h.used, need <= h.size[NextChunk(h, m)]
  PROVE  LET next == NextChunk(h, m)
             g == MergeNext(IF h.size[next] > need + SplitAt
                            THEN Split(h, next, need) ELSE h, m)
         IN  /\ Wf(g) /\ Finds(g) /\ g.used = h.used
             /\ g.size[m] >= h.size[m] + need /\ Same(h, g, h.used \ {m})
<1> DEFINE next == NextChunk(h, m)
           f == IF h.size[next] > need + SplitAt THEN Split(h, next, need) ELSE h
           g == MergeNext(f, m)
<1>1. /\ m \in Chunks(h) /\ h.used \subseteq Chunks(h) /\ h.size[h.end] = 0
      /\ h.first \in Nat /\ h.first < h.end /\ \A a \in Unused(h) : a >= h.first
  BY TAllocAssumption DEF Wf, Tiles, Finds, Record, Addr
<1>2. /\ m \in Nat /\ h.size[m] \in Nat /\ h.size[m] > 0 /\ next = m + h.size[m]
      /\ next \in h.headers /\ Chunks(h) \subseteq Nat
  BY <1>1, ChunkIs
<1>3. next \in Chunks(h) /\ next \in Unused(h) /\ next # m /\ next \in Nat
  BY <1>1, <1>2 DEF Chunks, Unused
<1>4. h.size[next] \in Nat /\ next \notin h.used /\ need <= h.size[next]
  BY <1>3, ChunkIs
<1>5. h.first <= next /\ h.first \in Nat
  BY <1>1, <1>2, <1>3
<1> HIDE DEF next
<1>6. /\ Wf(f) /\ f.used = h.used /\ f.first = h.first /\ f.end = h.end /\ next \in Unused(f)
      /\ m \in Chunks(f) /\ f.size[m] = h.size[m]
      /\ f.size[next] \in Nat /\ f.size[next] >= need
      /\ Chunks(h) \subseteq Chunks(f) /\ Same(h, f, h.used)
      /\ \A a \in Unused(f) : a >= h.first
  <2>1. CASE h.size[next] > need + SplitAt
    <3>1. SplitInto(h, f, next, need)
      <4>1. h.size[next] - need >= SplitAt
        BY <2>1, <1>4, TAllocAssumption
      <4> QED
        BY <2>1, <4>1, <1>3, SplitIs
    <3> HIDE DEF f
    <3>2. Same(h, f, h.used) /\ f.used = h.used /\ Chunks(h) \subseteq Chunks(f)
      BY <3>1, <1>1, <1>4 DEF Same, SplitInto
    <3>3. f.first = h.first
      BY <3>1, <1>5, <1>3 DEF SplitInto
    <3>4. \A a \in Unused(f) : a >= h.first
      BY <3>1, <3>2, <1>1, <1>3, <1>5 DEF SplitInto, Unused
    <3> QED
      BY <3>1, <3>2, <3>3, <3>4, <1>1, <1>3, <1>4 DEF SplitInto, Unused, Same
  <2>2. CASE ~(h.size[next] > need + SplitAt)
    BY <2>2, <1>1, <1>3, <1>4 DEF Same
  <2> QED
    BY <2>1, <2>2
<1> HIDE DEF f
<1>7. NextChunk(f, m) = next
  BY <1>6, <1>2 DEF NextChunk
<1>8. g = Absorb(f, m)
  BY <1>6, <1>7 DEF MergeNext
<1> HIDE DEF g
<1>9. /\ Wf(g) /\ Chunks(g) = Chunks(f) \ {next} /\ g.end = f.end
      /\ g.used = f.used /\ g.first = f.first
      /\ g.size[m] = f.size[m] + f.size[next]
      /\ Same(f, g, Chunks(f) \ {m, next})
  BY <1>6, <1>7, <1>8, AbsorbIs
<1>10. Finds(g)
  BY <1>1, <1>4, <1>6, <1>9 DEF Finds, Unused
<1>11. g.size[m] >= h.size[m] + need
  BY <1>2, <1>6, <1>9
<1>12. Same(h, g, h.used \ {m})
  <2> SUFFICES ASSUME NEW a \in h.used, a # m PROVE a \in Chunks(g) /\ g.size[a] = h.size[a]
    BY DEF Same
  <2>1. a \in Chunks(f) /\ f.size[a] = h.size[a] /\ a # next
    BY <1>4, <1>6 DEF Same
  <2> QED
    BY <2>1, <1>9 DEF Same
<1> QED
  BY <1>6, <1>9, <1>10, <1>11, <1>12 DEF g, f, next
-----------------------------------------------------------------------------
\* The four properties, and nothing is where there is no arena.
IInv ==
  /\ TypeOK /\ Tiled /\ NoneMissed /\ Room
  /\ ~Started => heap = Empty

\* The heap stays in order, and the blocks but those at S are what they were.
Touches(S) ==
  /\ Wf(heap') /\ Finds(heap')
  /\ heap'.used \ S = heap.used \ S
  /\ Same(heap, heap', heap'.used \ S)
  /\ asked' \in [heap'.used -> Nat]
  /\ \A a \in heap'.used \ S : asked'[a] = asked[a]
  /\ \A a \in S \cap heap'.used : heap'.size[a] - 1 >= asked'[a]

\* A call that touches no other blocks than its own preserves the invariant.
LEMMA Stays ==
  ASSUME IInv, NEW S, Touches(S), lost' = lost
  PROVE  IInv'
<1>1. heap' \in Record /\ heap'.used \subseteq Chunks(heap') /\ Tiles(heap') /\ Finds(heap')
  BY DEF Touches, Wf
<1>2. TypeOK'
  <2>1. lost' \in BOOLEAN
    BY DEF IInv, TypeOK
  <2> QED
    BY <1>1, <2>1 DEF Touches, TypeOK, Record
<1>3. Started'
  BY <1>1 DEF Tiles, Started
<1>4. Tiled' /\ NoneMissed'
  BY <1>1 DEF Tiled, NoneMissed
<1>5. Room'
  <2> SUFFICES ASSUME NEW a \in DOMAIN asked'
               PROVE  a \in Chunks(heap') /\ heap'.size[a] - 1 >= asked'[a]
    BY DEF Room
  <2>1. a \in heap'.used
    BY DEF Touches
  <2>2. CASE a \in S
    BY <2>1, <2>2, <1>1 DEF Touches
  <2>3. CASE a \notin S
    <3>1. a \in heap.used /\ asked'[a] = asked[a] /\ heap'.size[a] = heap.size[a]
      BY <2>1, <2>3 DEF Touches, Same
    <3>2. heap.size[a] - 1 >= asked[a]
      BY <3>1 DEF IInv, TypeOK, Room
    <3> QED
      BY <2>1, <3>1, <3>2, <1>1
  <2> QED
    BY <2>2, <2>3
<1> QED
  BY <1>2, <1>3, <1>4, <1>5 DEF IInv

\* What the invariant says of an arena.
LEMMA InOrder ==
  ASSUME IInv, Started
  PROVE  Wf(heap) /\ Finds(heap) /\ asked \in [heap.used -> Nat] /\ DOMAIN asked = heap.used
  BY DEF IInv, TypeOK, Tiled, NoneMissed, Room, Wf, Record

\* Who holds a block has an arena.
LEMMA Holder ==
  ASSUME IInv, NEW m \in DOMAIN asked
  PROVE  /\ Started /\ m \in heap.used /\ m \in Chunks(heap)
         /\ heap.size[m] \in Nat /\ Chunks(heap) \subseteq Nat
<1>1. Started /\ m \in heap.used
  BY DEF IInv, TypeOK, Empty
<1>2. Wf(heap) /\ m \in Chunks(heap)
  BY <1>1, InOrder DEF Wf
<1> QED
  BY <1>1, <1>2, ChunkIs

\* What each call touches.  mem_init finds nobody who holds a block:
LEMMA Inits ==
  ASSUME IInv, NEW n \in Request, mem_init(n)
  PROVE  /\ Touches({}) /\ asked' = asked /\ DOMAIN asked = {} /\ DOMAIN asked' = {}
         /\ ~Stale /\ ~Stale'
<1>1. heap = Empty /\ heap' = Arena(n) /\ asked' = asked /\ n + 1 <= Limit /\ n \in Nat
  BY TAllocAssumption DEF mem_init, IInv
<1>2. heap.used = {} /\ asked \in [heap.used -> Nat]
  BY <1>1 DEF IInv, TypeOK, Empty
<1>3. Wf(heap') /\ Finds(heap') /\ heap'.used = {} /\ heap'.first \in heap'.headers
  BY <1>1, ArenaIs
<1>4. ~Stale /\ ~Stale'
  BY <1>3 DEF mem_init, Stale
<1> QED
  BY <1>1, <1>2, <1>3, <1>4 DEF Touches, Same

\* mem_alloc touches the new block only,
LEMMA Allocates ==
  ASSUME IInv, NEW n \in Request, mem_alloc(n)
  PROVE  \E m \in DOMAIN asked' \ DOMAIN asked : Touches({m}) /\ ~Stale /\ ~Stale'
<1> DEFINE h == IF Started THEN heap ELSE Arena(n)
           m == AllocAt(h, n + 1)
<1>1. /\ ~Stale
      /\ Started \/ n + 1 <= Limit
      /\ CanAlloc(h, n + 1) /\ heap' = Alloc(h, n + 1) /\ asked' = Hold(asked, m, n)
      /\ n \in Nat /\ n + 1 \in Nat /\ n + 1 > 0
  BY TAllocAssumption DEF mem_alloc
<1>2. Wf(h) /\ Finds(h) /\ h.used = heap.used /\ Same(heap, h, heap.used)
      /\ asked \in [heap.used -> Nat] /\ h.first \in h.headers
  <2>1. CASE Started
    BY <2>1, <1>1, InOrder DEF Same, Wf, Stale
  <2>2. CASE ~Started
    <3>1. /\ h = Arena(n) /\ Wf(Arena(n)) /\ Finds(Arena(n)) /\ Arena(n).used = {}
          /\ Arena(n).first \in Arena(n).headers
      BY <2>2, <1>1, ArenaIs
    <3>2. heap.used = {} /\ asked \in [heap.used -> Nat]
      BY <2>2 DEF IInv, TypeOK, Empty
    <3> HIDE DEF h
    <3> QED
      BY <3>1, <3>2 DEF Same
  <2> QED
    BY <2>1, <2>2
<1> HIDE DEF h
<1>3. /\ Wf(heap') /\ Finds(heap') /\ m \notin h.used /\ heap'.used = h.used \cup {m}
      /\ heap'.size[m] >= n + 1 /\ Same(h, heap', h.used) /\ heap'.first \in heap'.headers
  BY <1>1, <1>2, AllocIs
<1> HIDE DEF m
<1>4. /\ asked' \in [heap.used \cup {m} -> Nat] /\ asked'[m] = n
      /\ \A a \in heap.used : a # m => asked'[a] = asked[a]
  BY <1>1, <1>2 DEF Hold
<1>5. Same(heap, heap', heap'.used \ {m})
  BY <1>2, <1>3 DEF Same
<1>6. heap'.size[m] - 1 >= n
  <2>1. m \in Chunks(heap')
    BY <1>3 DEF Wf
  <2>2. heap'.size[m] \in Nat
    BY <2>1, <1>3, ChunkIs
  <2> QED
    BY <2>2, <1>1, <1>3
<1>7. Touches({m})
  BY <1>2, <1>3, <1>4, <1>5, <1>6 DEF Touches
<1>8. ~Stale /\ ~Stale'
  BY <1>1, <1>3 DEF Stale
<1> QED
  BY <1>2, <1>3, <1>4, <1>7, <1>8

\* The search stays where there is a chunk.
LEMMA LeadsOn ==
  ASSUME Started, Leads(heap, heap')
  PROVE  Stale' => Stale
BY DEF Leads, Stale

\* mem_release the one that is given up,
LEMMA Releases ==
  ASSUME IInv, NEW m \in DOMAIN asked, mem_release(m)
  PROVE  Touches({m}) /\ m \notin DOMAIN asked' /\ (Stale' => Stale)
<1>1. heap' = Free(heap, m) /\ asked' = Drop(asked, m)
  BY DEF mem_release
<1>2. Wf(heap) /\ Finds(heap) /\ asked \in [heap.used -> Nat] /\ m \in heap.used
  BY Holder, InOrder
<1>3. /\ Wf(heap') /\ Finds(heap') /\ heap'.used = heap.used \ {m}
      /\ Same(heap, heap', heap'.used) /\ Leads(heap, heap')
  BY <1>1, <1>2, FreeIs
<1>4. /\ asked' \in [heap.used \ {m} -> Nat]
      /\ \A a \in heap.used \ {m} : asked'[a] = asked[a]
  BY <1>1, <1>2 DEF Drop
<1>5. Stale' => Stale
  BY <1>3, Holder, LeadsOn
<1> QED
  BY <1>2, <1>3, <1>4, <1>5 DEF Touches, Same

\* and so does mem_mark_unused,
LEMMA MarksUnused ==
  ASSUME IInv, NEW m \in DOMAIN asked, mem_mark_unused(m)
  PROVE  Touches({m}) /\ m \notin DOMAIN asked' /\ (Stale' => Stale)
<1> DEFINE u == [heap EXCEPT !.used = @ \ {m}]
<1>1. heap' = Lower(u, m) /\ asked' = Drop(asked, m)
  BY DEF mem_mark_unused
<1>2. /\ Wf(heap) /\ Finds(heap) /\ asked \in [heap.used -> Nat] /\ m \in heap.used
      /\ m \in Chunks(heap) /\ Chunks(heap) \subseteq Nat
  BY Holder, InOrder
<1>3. Wf(u) /\ Alike(heap, u) /\ u.used = heap.used \ {m} /\ u.first = heap.first
  BY <1>2, UnusedIs
<1> HIDE DEF u
<1>4. /\ Wf(heap') /\ Alike(u, heap') /\ heap'.used = heap.used \ {m}
      /\ heap'.first = (IF heap.first > m THEN m ELSE heap.first)
  <2>1. m \in Chunks(u)
    BY <1>2, <1>3 DEF Alike
  <2> QED
    BY <1>1, <1>3, <2>1, LowerIs
<1>a. heap.first \in Nat /\ heap.first < heap.end /\ heap.end \in Nat
  BY <1>2, TAllocAssumption DEF Wf, Record, Addr, Finds
<1>5. Finds(heap')
  <2>1. /\ heap'.first <= m /\ heap'.first <= heap.first /\ m \in Nat /\ heap'.first \in Nat
        /\ heap'.end = heap.end
    BY <1>2, <1>3, <1>4, <1>a DEF Alike
  <2>2. \A a \in Unused(heap') : a = m \/ a \in Unused(heap)
    BY <1>3, <1>4 DEF Alike, Unused
  <2>3. \A a \in Unused(heap) : a >= heap.first /\ a \in Nat
    BY <1>2 DEF Finds, Unused
  <2>4. heap'.first < heap'.end
    BY <2>1, <1>a
  <2> QED
    BY <2>1, <2>2, <2>3, <2>4, <1>a DEF Finds
<1>b. Stale' => Stale
  <2>1. Chunks(heap') = Chunks(heap) /\ heap'.end = heap.end
    BY <1>3, <1>4 DEF Alike
  <2>2. heap.first \in heap.headers => heap.first \in Chunks(heap')
    BY <1>a, <2>1 DEF Chunks
  <2>3. heap'.first \in Chunks(heap') => heap'.first \in heap'.headers
    BY DEF Chunks
  <2>4. Leads(heap, heap')
    BY <1>2, <1>4, <2>1, <2>2, <2>3 DEF Leads
  <2> QED
    BY <2>4, Holder, LeadsOn
<1>6. Same(heap, heap', heap'.used)
  BY <1>2, <1>3, <1>4 DEF Alike, Same, Wf
<1>7. /\ asked' \in [heap.used \ {m} -> Nat]
      /\ \A a \in heap.used \ {m} : asked'[a] = asked[a]
  BY <1>1, <1>2 DEF Drop
<1> QED
  BY <1>2, <1>4, <1>5, <1>b, <1>6, <1>7 DEF Touches, Same

\* mem_realloc in place the block itself,
LEMMA Shrinks ==
  ASSUME IInv, NEW m \in DOMAIN asked, NEW n \in Request, Shrink(m, n)
  PROVE  Touches({m}) /\ m \in DOMAIN asked' /\ (Stale' => Stale)
<1>1. /\ heap' = Use(Split(heap, m, n + 1), m) /\ asked' = Hold(asked, m, n)
      /\ n < heap.size[m] - 1 /\ n \in Nat
  BY TAllocAssumption DEF Shrink
<1>2. /\ Wf(heap) /\ Finds(heap) /\ asked \in [heap.used -> Nat] /\ m \in heap.used
      /\ m \in Chunks(heap) /\ heap.size[m] \in Nat
  BY Holder, InOrder
<1>3. n + 1 \in Nat /\ n + 1 > 0 /\ n + 1 <= heap.size[m]
  BY <1>1, <1>2
<1>4. /\ Wf(heap') /\ Finds(heap') /\ heap'.used = heap.used \cup {m}
      /\ heap'.size[m] >= n + 1 /\ Same(heap, heap', heap.used \ {m}) /\ Leads(heap, heap')
  <2>1. heap.first < heap.end /\ \A a \in Unused(heap) \ {m} : a >= heap.first
    BY <1>2 DEF Finds
  <2> QED
    BY <1>1, <1>2, <1>3, <2>1, SplitUseIs
<1>5. /\ asked' \in [heap.used -> Nat] /\ asked'[m] = n
      /\ \A a \in heap.used \ {m} : asked'[a] = asked[a]
  BY <1>1, <1>2 DEF Hold
<1>6. heap'.size[m] - 1 >= n
  <2>1. heap'.size[m] \in Nat
    BY <1>2, <1>4, ChunkIs DEF Wf
  <2> QED
    BY <2>1, <1>1, <1>4
<1>7. Stale' => Stale
  BY <1>4, Holder, LeadsOn
<1> QED
  BY <1>2, <1>4, <1>5, <1>6, <1>7 DEF Touches

\* also when it grows over the next chunk,
LEMMA Grows ==
  ASSUME IInv, NEW m \in DOMAIN asked, NEW n \in Request, Grow(m, n)
  PROVE  Touches({m}) /\ m \in DOMAIN asked' /\ heap'.size[m] - 1 > heap.size[m] - 1
<1> DEFINE next == NextChunk(heap, m)
           need == Needs(m, n)
<1>1. /\ heap' = MergeNext(IF heap.size[next] > need + SplitAt
                           THEN Split(heap, next, need) ELSE heap, m)
      /\ asked' = Hold(asked, m, n)
      /\ n >= heap.size[m] - 1 /\ n \in Nat
      /\ next \notin heap.used /\ need <= heap.size[next]
  BY TAllocAssumption DEF Grow, NextGives
<1>2. /\ Wf(heap) /\ Finds(heap) /\ asked \in [heap.used -> Nat] /\ m \in heap.used
      /\ m \in Chunks(heap) /\ heap.size[m] \in Nat
  BY Holder, InOrder
<1>3. need \in Nat /\ need > 0 /\ heap.size[m] + need >= n + 1
  BY <1>1, <1>2, TAllocAssumption DEF Needs
<1> HIDE DEF need
<1>4. /\ Wf(heap') /\ Finds(heap') /\ heap'.used = heap.used
      /\ heap'.size[m] >= heap.size[m] + need /\ Same(heap, heap', heap.used \ {m})
  BY <1>1, <1>2, <1>3, GrowIs
<1>5. /\ asked' \in [heap.used -> Nat] /\ asked'[m] = n
      /\ \A a \in heap.used \ {m} : asked'[a] = asked[a]
  BY <1>1, <1>2 DEF Hold
<1>6. heap'.size[m] - 1 >= n /\ heap'.size[m] - 1 > heap.size[m] - 1
  <2>1. heap'.size[m] \in Nat
    BY <1>2, <1>4, ChunkIs DEF Wf
  <2> QED
    BY <2>1, <1>1, <1>2, <1>3, <1>4
<1> QED
  BY <1>2, <1>4, <1>5, <1>6 DEF Touches

\* and elsewhere both the old and the new one.
LEMMA Moves ==
  ASSUME IInv, NEW m \in DOMAIN asked, NEW n \in Request, MoveBlock(m, n)
  PROVE  \E p \in DOMAIN asked' \ DOMAIN asked :
           Touches({m, p}) /\ m \notin DOMAIN asked' /\ ~Stale /\ ~Stale'
<1> DEFINE p == AllocAt(heap, n + 1)
           f == Alloc(heap, n + 1)
<1>1. /\ ~Stale /\ CanAlloc(heap, n + 1) /\ heap' = Free(f, m) /\ asked' = Hold(Drop(asked, m), p, n)
      /\ n \in Nat /\ n + 1 \in Nat /\ n + 1 > 0
  BY TAllocAssumption DEF MoveBlock
<1>2. /\ Wf(heap) /\ Finds(heap) /\ asked \in [heap.used -> Nat] /\ m \in heap.used
      /\ heap.first \in heap.headers
  BY <1>1, Holder, InOrder DEF Stale
<1>3. /\ Wf(f) /\ Finds(f) /\ p \notin heap.used /\ f.used = heap.used \cup {p}
      /\ f.size[p] >= n + 1 /\ Same(heap, f, heap.used) /\ f.first \in f.headers
  BY <1>1, <1>2, AllocIs
<1> HIDE DEF f, p
<1>4. /\ Wf(heap') /\ Finds(heap') /\ heap'.used = f.used \ {m} /\ Same(f, heap', heap'.used)
      /\ Leads(f, heap')
  BY <1>1, <1>2, <1>3, FreeIs
<1>5. heap'.used = (heap.used \ {m}) \cup {p} /\ p # m
  BY <1>2, <1>3, <1>4
<1>6. /\ asked' \in [(heap.used \ {m}) \cup {p} -> Nat] /\ asked'[p] = n
      /\ \A a \in heap.used \ {m} : asked'[a] = asked[a]
  <2>1. Drop(asked, m) \in [heap.used \ {m} -> Nat]
        /\ \A a \in heap.used \ {m} : Drop(asked, m)[a] = asked[a]
    BY <1>2 DEF Drop
  <2> QED
    BY <1>1, <1>3, <2>1 DEF Hold
<1>7. Same(heap, heap', heap'.used \ {m, p})
  BY <1>3, <1>4, <1>5 DEF Same
<1>8. heap'.size[p] - 1 >= n
  <2>1. p \in Chunks(f) /\ heap'.size[p] = f.size[p]
    BY <1>3, <1>4, <1>5 DEF Wf, Same
  <2>2. f.size[p] \in Nat
    BY <2>1, <1>3, ChunkIs
  <2> QED
    BY <2>1, <2>2, <1>1, <1>3
<1>9. Touches({m, p})
  BY <1>2, <1>3, <1>4, <1>5, <1>6, <1>7, <1>8 DEF Touches
<1>10. ~Stale /\ ~Stale'
  BY <1>1, <1>3, <1>4 DEF Leads, Stale
<1> QED
  BY <1>2, <1>3, <1>5, <1>6, <1>9, <1>10

\* Before the first call the invariant holds.
LEMMA InitIInv == Init => IInv
<1> SUFFICES ASSUME Init PROVE IInv
  OBVIOUS
<1>1. heap = Empty /\ asked = Nothing /\ lost = FALSE /\ 0 \in Addr
  BY TAllocAssumption DEF Init, Addr
<1>2. Empty.headers = {} /\ Empty.used = {} /\ Empty \in Record
  BY <1>1 DEF Empty, Record
<1>3. Nothing \in [{} -> Nat] /\ DOMAIN Nothing = {}
  BY DEF Nothing
<1>4. ~Started
  BY <1>1, <1>2 DEF Started
<1> QED
  BY <1>1, <1>2, <1>3, <1>4 DEF IInv, TypeOK, Record, Tiled, NoneMissed, Room

\* mem_deinit leaves nothing.
LEMMA Deinits ==
  ASSUME IInv, mem_deinit, lost' = lost
  PROVE  IInv' /\ DOMAIN asked' = {} /\ ~Stale'
<1>1. heap' = Empty /\ asked' = Nothing /\ 0 \in Addr
  BY TAllocAssumption DEF mem_deinit, Addr
<1>2. Empty.headers = {} /\ Empty.used = {} /\ Empty \in Record
  BY <1>1 DEF Empty, Record
<1>3. Nothing \in [{} -> Nat] /\ DOMAIN Nothing = {}
  BY DEF Nothing
<1>4. ~Started' /\ ~Stale'
  BY <1>1, <1>2 DEF Started, Stale
<1>5. lost' \in BOOLEAN
  BY DEF IInv, TypeOK
<1> QED
  BY <1>1, <1>2, <1>3, <1>4, <1>5 DEF IInv, TypeOK, Record, Tiled, NoneMissed, Room

\* Every call preserves the invariant.
LEMMA CallIInv == IInv /\ Call /\ lost' = lost => IInv'
<1> SUFFICES ASSUME IInv, Call, lost' = lost PROVE IInv'
  OBVIOUS
<1>1. CASE mem_deinit
  BY <1>1, Deinits
<1>2. ASSUME NEW n \in Request, mem_init(n) PROVE IInv'
  BY <1>2, Inits, Stays
<1>3. ASSUME NEW n \in Request, mem_alloc(n) PROVE IInv'
  BY <1>3, Allocates, Stays
<1>4. ASSUME NEW m \in DOMAIN asked, mem_release(m) PROVE IInv'
  BY <1>4, Releases, Stays
<1>5. ASSUME NEW m \in DOMAIN asked, mem_mark_unused(m) PROVE IInv'
  BY <1>5, MarksUnused, Stays
<1>6. ASSUME NEW m \in DOMAIN asked, NEW n \in Request, Shrink(m, n) PROVE IInv'
  BY <1>6, Shrinks, Stays
<1>7. ASSUME NEW m \in DOMAIN asked, NEW n \in Request, Grow(m, n) PROVE IInv'
  BY <1>7, Grows, Stays
<1>8. ASSUME NEW m \in DOMAIN asked, NEW n \in Request, MoveBlock(m, n) PROVE IInv'
  BY <1>8, Moves, Stays
<1> QED
  BY <1>1, <1>2, <1>3, <1>4, <1>5, <1>6, <1>7, <1>8 DEF Call

\* So does a search that begins inside of a block, as long as nothing comes after it.
LEMMA NextIInv == IInv /\ [Next]_vars => IInv'
<1>1. IInv /\ SearchInside => IInv'
  BY DEF SearchInside, IInv, TypeOK, Tiled, NoneMissed, Room, Started
<1>2. IInv /\ UNCHANGED vars => IInv'
  BY DEF vars, IInv, TypeOK, Tiled, NoneMissed, Room, Started
<1> QED
  BY <1>1, <1>2, CallIInv DEF Next

\* The chunks always tile the heap, no unused one is in front of the search, and each
\* block has its room, for every memory, every request and any values of the three
\* limits of talloc.c, whatever blocks grow over.
THEOREM InductiveInvariant == Spec => []IInv
BY InitIInv, NextIInv, PTL DEF Spec

\* No header is lost: the list of chunks can be read in both directions, also when
\* FirstFreeChunk is inside of a block.
THEOREM AlwaysTiled == Spec => []Tiled
<1>1. IInv => Tiled
  BY DEF IInv
<1> QED
  BY <1>1, InductiveInvariant, PTL

\* mem_find_unused_chunk never begins behind an unused chunk.
THEOREM NeverMissed == Spec => []NoneMissed
<1>1. IInv => NoneMissed
  BY DEF IInv
<1> QED
  BY <1>1, InductiveInvariant, PTL

\* A block has the room that was asked for, a realloc in place included.
THEOREM AlwaysRoom == Spec => []Room
<1>1. IInv => Room
  BY DEF IInv
<1> QED
  BY <1>1, InductiveInvariant, PTL

\* Sizes never become negative, no pointer leaves the memory, and the chunks in use
\* are those that the user holds.
THEOREM TypeCorrect == Spec => []TypeOK
<1>1. IInv => TypeOK
  BY DEF IInv
<1> QED
  BY <1>1, InductiveInvariant, PTL
-----------------------------------------------------------------------------
\* The blocks of a heap in order have their room and do not overlap.
LEMMA BlocksSound == IInv => Promised!Sound
<1> SUFFICES ASSUME IInv PROVE Promised!Sound
  OBVIOUS
<1>1. DOMAIN Blocks = DOMAIN asked
  BY DEF Blocks
<1>2. ASSUME NEW a \in DOMAIN asked PROVE Blocks[a].room >= Blocks[a].asked
  BY <1>2 DEF Blocks, IInv, Room
<1>3. ASSUME NEW a \in DOMAIN asked, NEW b \in DOMAIN asked, a < b
      PROVE  a + Blocks[a].room <= b
  <2>1. /\ Wf(heap) /\ a \in Chunks(heap) /\ b \in heap.headers /\ heap.size[a] \in Nat
        /\ a \in Nat /\ b \in Nat
    BY Holder, InOrder DEF Chunks
  <2>2. b <= a \/ b >= a + heap.size[a]
    BY <2>1, ChunkIs
  <2> QED
    BY <2>1, <2>2, <1>3 DEF Blocks
<1> QED
  BY <1>1, <1>2, <1>3 DEF Promised!Sound, Promised!Held

\* What a call does not touch, it keeps as Heap demands.
LEMMA OthersKept ==
  ASSUME IInv, IInv', NEW S, Touches(S)
  PROVE  Promised!OthersKept(S)
<1>1. DOMAIN Blocks = DOMAIN asked /\ DOMAIN Blocks' = DOMAIN asked'
  BY DEF Blocks
<1>2. DOMAIN asked = heap.used /\ DOMAIN asked' = heap'.used
  BY DEF IInv, TypeOK
<1>3. ASSUME NEW a \in heap.used \ S PROVE Blocks'[a] = Blocks[a]
  BY <1>2 DEF Touches, Same, Blocks
<1> QED
  BY <1>1, <1>2, <1>3 DEF Touches, Promised!OthersKept, Promised!Held

\* Every call is one of Heap's, or changes nothing of what Heap has.
LEMMA CallSimulation ==
  ASSUME IInv, IInv', Call, lost' = lost
  PROVE  Promised!Call \/ (Blocks' = Blocks /\ Stale' = Stale)
<1>1. Promised!Held = DOMAIN asked /\ Promised!Held' = DOMAIN asked'
  BY DEF Blocks, Promised!Held
<1>2. Promised!Sound'
  BY BlocksSound, PTL
<1>3. CASE mem_deinit
  BY <1>1, <1>2, <1>3, Deinits DEF Promised!Call, Promised!FreeAll
<1>4. ASSUME NEW n \in Request, mem_init(n) PROVE Blocks' = Blocks /\ Stale' = Stale
  <2>1. Blocks' = Blocks
    BY <1>4, Inits DEF Blocks
  <2>2. ~Stale /\ ~Stale'
    BY <1>4, Inits
  <2> QED
    BY <2>1, <2>2 DEF Stale
<1>5. ASSUME NEW n \in Request, mem_alloc(n) PROVE Promised!Call
  BY <1>1, <1>2, <1>5, Allocates, OthersKept
     DEF Promised!Call, Promised!Malloc, Promised!Searches
<1>6. ASSUME NEW m \in DOMAIN asked, mem_release(m) PROVE Promised!Call
  BY <1>1, <1>2, <1>6, Releases, OthersKept DEF Promised!Call, Promised!Free
<1>7. ASSUME NEW m \in DOMAIN asked, mem_mark_unused(m) PROVE Promised!Call
  BY <1>1, <1>2, <1>7, MarksUnused, OthersKept DEF Promised!Call, Promised!Free
<1>8. ASSUME NEW m \in DOMAIN asked, NEW n \in Request, Shrink(m, n) PROVE Promised!Call
  <2>1. Touches({m}) /\ m \in DOMAIN asked' /\ (Stale' => Stale)
    BY <1>8, Shrinks
  <2>2. Promised!OthersKept({m})
    BY <2>1, OthersKept
  <2> QED
    BY <1>1, <1>2, <2>1, <2>2 DEF Promised!Call, Promised!Resize
<1>9. ASSUME NEW m \in DOMAIN asked, NEW n \in Request, Grow(m, n) PROVE Promised!Call
  <2>1. /\ Touches({m}) /\ m \in DOMAIN asked'
        /\ heap'.size[m] - 1 > heap.size[m] - 1
    BY <1>9, Grows
  <2>2. Promised!OthersKept({m})
    BY <2>1, OthersKept
  <2>3. Blocks'[m].room > Blocks[m].room
    BY <2>1 DEF Blocks
  <2> QED
    BY <1>1, <1>2, <2>1, <2>2, <2>3 DEF Promised!Call, Promised!Resize
<1>10. ASSUME NEW m \in DOMAIN asked, NEW n \in Request, MoveBlock(m, n) PROVE Promised!Call
  <2>1. PICK p \in DOMAIN asked' \ DOMAIN asked :
          Touches({m, p}) /\ m \notin DOMAIN asked' /\ ~Stale /\ ~Stale'
    BY <1>10, Moves
  <2>2. Promised!OthersKept({m, p})
    BY <2>1, OthersKept
  <2> QED
    BY <1>1, <1>2, <2>1, <2>2 DEF Promised!Call, Promised!Move, Promised!Searches
<1> QED
  BY <1>3, <1>4, <1>5, <1>6, <1>7, <1>8, <1>9, <1>10 DEF Call

\* Every step is one of Heap's or a stutter.
LEMMA Simulation ==
  IInv /\ IInv' /\ [Next]_vars => [Promised!Next]_<<Blocks, Stale, lost>>
<1> SUFFICES ASSUME IInv, IInv', [Next]_vars
             PROVE  Promised!Next \/ UNCHANGED <<Blocks, Stale, lost>>
  OBVIOUS
<1>1. CASE ~lost /\ Call /\ lost' = lost
  <2>1. CASE Promised!Call
    BY <1>1, <2>1 DEF Promised!Next
  <2>2. CASE Blocks' = Blocks /\ Stale' = Stale
    BY <1>1, <2>2
  <2> QED
    BY <1>1, <2>1, <2>2, CallSimulation
<1>2. CASE ~lost /\ SearchInside
  <2>1. Blocks' = Blocks /\ Stale' = Stale
    BY <1>2 DEF SearchInside, Blocks, Stale, Started
  <2>2. Stale /\ lost' = TRUE
    BY <1>2 DEF SearchInside
  <2> QED
    BY <1>2, <2>1, <2>2 DEF Promised!Next, Promised!Lose
<1>3. CASE UNCHANGED vars
  BY <1>3 DEF vars, Blocks, Stale, Started
<1> QED
  BY <1>1, <1>2, <1>3 DEF Next

\* Every call does to the blocks of the user what malloc, free and realloc promise: no
\* two of them overlap, and none is touched by a call for another; and the search is
\* led astray by nothing but a block that is made larger in place.
THEOREM Refinement == Spec => HeapRefined
<1>1. Init => Promised!Init
  <2> SUFFICES ASSUME Init PROVE Promised!Init
    OBVIOUS
  <2>1. Blocks = [a \in {} |-> [asked |-> 0, room |-> 0]]
    BY DEF Init, Nothing, Blocks
  <2>2. ~Started
    BY DEF Init, Started, Empty
  <2>3. Stale = FALSE /\ lost = FALSE
    BY <2>2 DEF Init, Stale
  <2> QED
    BY <2>1, <2>3 DEF Promised!Init
<1>2. IInv /\ IInv' /\ [Next]_vars => [Promised!Next]_<<Blocks, Stale, lost>>
  BY Simulation
<1> QED
  BY <1>1, <1>2, InductiveInvariant, PTL DEF Spec, HeapRefined, Promised!Spec
=============================================================================
