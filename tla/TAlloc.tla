------------------------------- MODULE TAlloc -------------------------------
(***************************************************************************)
(* The allocator of y's libc, src/y/pkg/libc/libc/mem/talloc.c: chunks     *)
(* side by side between BegBreakPoint, here address 0, and an end chunk,   *)
(* each with its size and that of the chunk before it in its header, and   *)
(* FirstFreeChunk, where the search for an unused chunk begins.            *)
(*                                                                         *)
(* Addresses and sizes are in units of MEM_ALIGN_SIZE bytes, which is also *)
(* the size of a header.  A function of the code is an operator here that  *)
(* maps the heap before it to the one after it.  The header of a chunk     *)
(* that has become a part of another one is zeroed here; in memory it is   *)
(* whatever the user writes there.  A block that grows over FirstFreeChunk *)
(* leaves the pointer inside of itself: the next search begins there, and  *)
(* nothing is said of what it does.  brk(2) gives what is asked for.       *)
(***************************************************************************)
EXTENDS Integers, FiniteSetsExt

CONSTANTS Limit,      \* the last address there is
          Request,    \* the sizes that are asked for
          SplitAt,    \* MemSplitWhenIsAtleast
          Extra,      \* MemExtraSpaceOnRealloc
          Increase    \* MemIncreaseExtrabytes

\* With a limit of 0 a chunk of no size could be split off; both are 256 bytes by default.
ASSUME TAllocAssumption ==
  /\ Limit \in Nat /\ Request \subseteq Nat
  /\ {SplitAt, Extra} \subseteq Nat \ {0} /\ Increase \in Nat

Addr == 0 .. Limit

VARIABLES
  heap,     \* [headers, end, used, size, prev, first]
  asked,    \* of each chunk that the user holds a pointer into, the size asked for
  lost      \* a search has begun where no header is

vars == <<heap, asked, lost>>

TypeOK ==
  /\ heap \in [headers : SUBSET Addr, end : Addr, used : SUBSET Addr,
               size : [Addr -> Nat], prev : [Addr -> Nat], first : Addr]
  /\ asked \in [heap.used -> Nat]
  /\ lost \in BOOLEAN

Empty == [headers |-> {}, end |-> 0, used |-> {}, size |-> [a \in Addr |-> 0],
          prev |-> [a \in Addr |-> 0], first |-> 0]

Nothing == [a \in {} |-> 0]

Init == heap = Empty /\ asked = Nothing /\ lost = FALSE

\* The chunks of h but for the end chunk, and those that are not in use.
Chunks(h) == h.headers \ {h.end}
Unused(h) == Chunks(h) \ h.used

NextChunk(h, m) == m + h.size[m]
-----------------------------------------------------------------------------
\* Mutated: FirstFreeChunk stays.
LowerKept(h, m) == h

\* FirstFreeChunk, if it is behind m, becomes m.
Lower(h, m) == [h EXCEPT !.first = IF @ > m THEN m ELSE @]

\* Mutated: the chunk behind the new one keeps the old prev_chunk_size.
SplitHalf(h, m, n) ==
  IF h.size[m] - n < SplitAt THEN h
  ELSE Lower([h EXCEPT !.headers = @ \cup {m + n},
                       !.used = @ \ {m},
                       !.size = [@ EXCEPT ![m] = n, ![m + n] = h.size[m] - n],
                       !.prev = [@ EXCEPT ![m + n] = n]], m + n)

\* mem_split_chunk: m keeps n units, if the rest is worth a chunk of its own.
Split(h, m, n) ==
  IF h.size[m] - n < SplitAt THEN h
  ELSE Lower([h EXCEPT !.headers = @ \cup {m + n},
                       !.used = @ \ {m},
                       !.size = [@ EXCEPT ![m] = n, ![m + n] = h.size[m] - n],
                       !.prev = [@ EXCEPT ![m + n] = n,
                                          ![NextChunk(h, m)] = h.size[m] - n]], m + n)

\* The chunk behind m becomes a part of m.
Absorb(h, m) ==
  LET next == NextChunk(h, m)
      size == h.size[m] + h.size[next]
  IN  [h EXCEPT !.headers = @ \ {next},
                !.size = [@ EXCEPT ![m] = size, ![next] = 0],
                !.prev = [@ EXCEPT ![next] = 0, ![m + size] = size]]

\* Mutated: a chunk in use is merged too.
MergeAny(h, m) == IF NextChunk(h, m) # h.end THEN Absorb(h, m) ELSE h

\* mem_merge_next_chunk.
MergeNext(h, m) == IF NextChunk(h, m) \in Unused(h) THEN Absorb(h, m) ELSE h

\* mem_merge_chunks, and the chunk that it returns.
Merged(h, m) == IF h.prev[m] # 0 /\ m - h.prev[m] \in Unused(h) THEN m - h.prev[m] ELSE m
Merge(h, m) ==
  LET p == Merged(h, m)
  IN  MergeNext(IF p = m THEN h ELSE Absorb(h, p), p)

\* Where mem_find_unused_chunk has been, from FirstFreeChunk on.
Seen(h) == {a \in Unused(h) : a >= h.first}
Fitting(h, n) == {a \in Seen(h) : h.size[a] >= n}

\* The heap after brk(2), with a chunk of n units where the end chunk was.
Grown(h, n) ==
  [h EXCEPT !.headers = @ \cup {h.end + n}, !.end = @ + n,
            !.size = [@ EXCEPT ![h.end] = n, ![h.end + n] = 0],
            !.prev = [@ EXCEPT ![h.end + n] = n]]

Use(h, m) == [h EXCEPT !.used = @ \cup {m}]

\* __mem_alloc__ for chunks of n units: the chunk, and the heap.
AllocAt(h, n) == IF Fitting(h, n) = {} THEN h.end ELSE Min(Fitting(h, n))
Alloc(h, n) ==
  LET m == AllocAt(h, n)
  IN  IF Fitting(h, n) = {}
      THEN Use(Split(Grown(h, n + Increase), m, n), m)
      ELSE Use(Split([h EXCEPT !.first = Min(Seen(h))], m, n), m)

CanAlloc(h, n) == Fitting(h, n) # {} \/ h.end + n + Increase <= Limit

\* mem_release but for the pointer.
Free(h, m) ==
  LET unused == [h EXCEPT !.used = @ \ {m}]
  IN  Lower(Merge(unused, m), Merged(unused, m))

Hold(f, m, n) == [a \in DOMAIN f \cup {m} |-> IF a = m THEN n ELSE f[a]]
Drop(f, m) == [a \in DOMAIN f \ {m} |-> f[a]]
-----------------------------------------------------------------------------
Started == heap.headers # {}

\* FirstFreeChunk is inside of a block.
Stale == Started /\ heap.first \notin heap.headers

\* One unused chunk for n units and its header, and the end chunk.
Arena(n) ==
  [headers |-> {0, n + 1}, end |-> n + 1, used |-> {},
   size |-> [Empty.size EXCEPT ![0] = n + 1],
   prev |-> [Empty.prev EXCEPT ![n + 1] = n + 1],
   first |-> 0]

\* A second call does nothing.
mem_init(n) ==
  /\ ~Started /\ n + 1 <= Limit
  /\ heap' = Arena(n) /\ asked' = asked

\* The first allocation of all makes the arena that it needs.
mem_alloc(n) ==
  LET h == IF Started THEN heap ELSE Arena(n)
  IN  /\ ~Stale
      /\ Started \/ n + 1 <= Limit
      /\ CanAlloc(h, n + 1)
      /\ heap' = Alloc(h, n + 1)
      /\ asked' = Hold(asked, AllocAt(h, n + 1), n)

\* What mem_find_unused_chunk makes of the bytes of a block, for mem_alloc or for a
\* mem_realloc that has to move, nobody can say, nor what any later call does.
SearchInside == Stale /\ lost' = TRUE /\ UNCHANGED <<heap, asked>>

mem_release(m) ==
  /\ m \in DOMAIN asked
  /\ heap' = Free(heap, m) /\ asked' = Drop(asked, m)

\* The chunk is unused, and not merged.
mem_mark_unused(m) ==
  /\ m \in DOMAIN asked
  /\ heap' = Lower([heap EXCEPT !.used = @ \ {m}], m)
  /\ asked' = Drop(asked, m)

\* Mutated: the chunk that was split is not marked again.
ShrinkUnmarked(m, n) ==
  /\ m \in DOMAIN asked /\ n < heap.size[m] - 1
  /\ heap' = Split(heap, m, n + 1)
  /\ asked' = Hold(asked, m, n)

\* mem_realloc to less than the block has.
Shrink(m, n) ==
  /\ m \in DOMAIN asked /\ n < heap.size[m] - 1
  /\ heap' = Use(Split(heap, m, n + 1), m)
  /\ asked' = Hold(asked, m, n)

\* Mutated: the chunk that was grown over counts from behind its header.
NeedsLess(m, n) == n + Extra - 1 - heap.size[m]

\* The units that m takes of the next chunk, and whether it gives them.
Needs(m, n) == n + Extra + 1 - heap.size[m]
NextGives(m, n) ==
  LET next == NextChunk(heap, m)
  IN  next \notin heap.used /\ Needs(m, n) <= heap.size[next]

\* mem_realloc in place: the next chunk, or a part of it, becomes a part of m.
Grow(m, n) ==
  LET next == NextChunk(heap, m)
  IN  /\ m \in DOMAIN asked /\ n >= heap.size[m] - 1 /\ NextGives(m, n)
      /\ heap' = MergeNext(IF heap.size[next] > Needs(m, n) + SplitAt
                           THEN Split(heap, next, Needs(m, n)) ELSE heap, m)
      /\ asked' = Hold(asked, m, n)

\* mem_realloc elsewhere.
MoveBlock(m, n) ==
  /\ m \in DOMAIN asked /\ n >= heap.size[m] - 1 /\ ~NextGives(m, n)
  /\ ~Stale /\ CanAlloc(heap, n + 1)
  /\ heap' = Free(Alloc(heap, n + 1), m)
  /\ asked' = Hold(Drop(asked, m), AllocAt(heap, n + 1), n)

\* All blocks are given up; the next arena begins at another break.
mem_deinit ==
  /\ Started
  /\ heap' = Empty /\ asked' = Nothing

Call ==
  \/ mem_deinit
  \/ \E n \in Request : mem_init(n) \/ mem_alloc(n)
  \/ \E m \in DOMAIN asked :
       \/ mem_release(m) \/ mem_mark_unused(m)
       \/ \E n \in Request : Shrink(m, n) \/ Grow(m, n) \/ MoveBlock(m, n)

Next == ~lost /\ ((Call /\ lost' = lost) \/ SearchInside)

Spec == Init /\ [][Next]_vars
-----------------------------------------------------------------------------
\* The chunks are side by side from the first to the end chunk, read forward by
\* their sizes or backward by prev_chunk_size, whatever was split, merged and
\* grown: what mem_debug_all counts as failed otherwise (talloc.c:538-645).
Tiles(h) ==
  /\ 0 \in h.headers /\ h.end \in h.headers /\ h.prev[0] = 0 /\ h.size[h.end] = 0
  /\ \A a \in Chunks(h) :
       /\ a < h.end /\ h.size[a] > 0
       /\ NextChunk(h, a) \in h.headers
       /\ h.prev[NextChunk(h, a)] = h.size[a]
       /\ \A b \in h.headers : b <= a \/ b >= NextChunk(h, a)

Tiled == Started => Tiles(heap)

\* No unused chunk is in front of FirstFreeChunk, where the search begins
\* (mem_find_unused_chunk, talloc.c:191-211), also when a block has grown over it;
\* and the pointer never passes the end chunk.
Finds(h) ==
  /\ h.first < h.end
  /\ \A a \in Unused(h) : a >= h.first

NoneMissed == Started => Finds(heap)

\* The chunks in use are those that the user has pointers into, and each has the
\* room that was asked for, also after a realloc in place.
Room == \A m \in DOMAIN asked : m \in Chunks(heap) /\ heap.size[m] - 1 >= asked[m]

\* What the user has: the block of a chunk begins behind its header.
Blocks == [m \in DOMAIN asked |-> [asked |-> asked[m], room |-> heap.size[m] - 1]]

Promised == INSTANCE Heap WITH block <- Blocks, stale <- Stale

\* Every call does to the blocks what malloc, free and realloc promise, as long as no
\* search has begun inside of a block; and it is a realloc that makes room in place
\* that lets the next search begin there, nothing else.
HeapRefined == Promised!Spec

\* "FirstFreeChunk ... will simply point to a disaster point in memory, ... for
\* now it is handled by mem_release ()": merged chunks do not leave it behind.
MergesKeepFirst == Started => heap.first \in heap.headers
=============================================================================
