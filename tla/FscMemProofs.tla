---------------------------- MODULE FscMemProofs ----------------------------
(***************************************************************************)
(* For every heap and all requests the FSC allocator keeps its blocks,     *)
(* tags and lists consistent, hands out areas that do not meet, refuses    *)
(* only what no free block can hold, and finds the header of every area.   *)
(***************************************************************************)
EXTENDS FscMemBlocks

----------------------------------------------------------------------------
(* Allocation.                                                             *)

\* What is known of lists in a sound heap.
LEMMA ListFacts ==
  ASSUME NEW h, Sound(h), NEW i \in Idx
  PROVE  /\ h.list[i] \in Seq(Addr) /\ i \in Nat
         /\ \A j \in DOMAIN h.list[i] :
              /\ j \in Nat
              /\ h.list[i][j] \in FreeBlocks(h)
              /\ OS_FSC_MEM_SZ2IDX(h.size[h.list[i][j]]) = i
         /\ \A a \in FreeBlocks(h) :
              OS_FSC_MEM_SZ2IDX(h.size[a]) = i => \E j \in DOMAIN h.list[i] : a = h.list[i][j]
<1>1. h.list[i] \in Seq(Addr) /\ i \in Nat
  BY ConstantFacts DEF Sound, HeapType
<1>2. ToSet(h.list[i]) = {h.list[i][j] : j \in DOMAIN h.list[i]}
  BY DEF ToSet
<1>3. ToSet(h.list[i]) = {a \in FreeBlocks(h) : OS_FSC_MEM_SZ2IDX(h.size[a]) = i}
  BY DEF Sound, Listed
<1>4. \A j \in DOMAIN h.list[i] : j \in Nat
  BY <1>1
<1> QED BY <1>1, <1>2, <1>3, <1>4

\* A search returns a free block that is large enough.
LEMMA SearchFacts ==
  ASSUME Sound(heap), NEW size \in Nat \ {0}, NEW f \in OsFscMemSearch(size)
  PROVE  f \in FreeBlocks(heap) /\ heap.size[f] >= size
<1> DEFINE idx  == OS_FSC_MEM_SZ2IDX(size)
           own  == heap.list[idx]
           fits == {j \in DOMAIN own : heap.size[own[j]] >= size}
<1>0. \A a \in FreeBlocks(heap) : heap.size[a] \in Nat \ {0}
  BY BlockFacts DEF Sound, FreeBlocks
<1>1. idx \in Idx /\ idx \in Nat
  BY IdxFacts, ConstantFacts
<1>2. CASE Larger(size) # {}
  <2> DEFINE i == Min(Larger(size))
  <2>1. Larger(size) \in SUBSET Nat /\ Larger(size) \subseteq Idx
    BY ConstantFacts DEF Larger, Sound, HeapType
  <2>2. i \in Larger(size)
    BY <1>2, <2>1, MinOfNat
  <2>3. i \in Idx /\ i > idx /\ heap.list[i] # << >>
    BY <2>1, <2>2 DEF Larger
  <2>4. f = heap.list[i][1]
    BY <1>2 DEF OsFscMemSearch
  <2> HIDE DEF i
  <2>5. 1 \in DOMAIN heap.list[i]
    BY <2>3, ListFacts
  <2>6. f \in FreeBlocks(heap) /\ OS_FSC_MEM_SZ2IDX(heap.size[f]) = i /\ i \in Nat
    BY <2>3, <2>4, <2>5, ListFacts
  <2>7. heap.size[f] <= size => i <= idx
    BY <1>0, <2>6, IdxMonotone
  <2> HIDE DEF idx
  <2> QED BY <1>0, <1>1, <2>3, <2>6, <2>7
<1>3. CASE Larger(size) = {}
  <2>1. fits # {} /\ f = own[Min(fits)]
    BY <1>3 DEF OsFscMemSearch
  <2>2. fits \in SUBSET Nat
    BY <1>1, ListFacts
  <2>3. Min(fits) \in fits
    <3> HIDE DEF fits
    <3> QED BY <2>1, <2>2, MinOfNat
  <2>4. Min(fits) \in DOMAIN own /\ heap.size[f] >= size
    BY <2>1, <2>3
  <2> HIDE DEF fits
  <2> QED BY <1>1, <2>1, <2>4, ListFacts
<1> QED BY <1>2, <1>3

\* A search fails only if no free block is large enough.
LEMMA SearchComplete ==
  ASSUME Sound(heap), NEW size \in Nat \ {0},
         NEW a \in FreeBlocks(heap), heap.size[a] >= size
  PROVE  OsFscMemSearch(size) # {}
<1> DEFINE idx == OS_FSC_MEM_SZ2IDX(size)
           i   == OS_FSC_MEM_SZ2IDX(heap.size[a])
           own == heap.list[idx]
           fits == {j \in DOMAIN own : heap.size[own[j]] >= size}
<1>0. heap.size[a] \in Nat \ {0}
  BY BlockFacts DEF Sound, FreeBlocks
<1>1. idx \in Idx /\ i \in Idx /\ idx \in Nat /\ i \in Nat /\ idx <= i
  BY <1>0, IdxFacts, IdxMonotone, ConstantFacts
<1>2. PICK j \in DOMAIN heap.list[i] : a = heap.list[i][j]
  BY <1>1, ListFacts
<1>3. CASE i = idx
  <2>1. j \in fits
    BY <1>2, <1>3
  <2> QED BY <2>1 DEF OsFscMemSearch
<1>4. CASE i > idx
  <2>1. heap.list[i] # << >>
    BY <1>2
  <2>2. i \in heap.bitMap
    BY <1>1, <2>1 DEF Sound, BitsOn
  <2>3. i \in Larger(size)
    BY <1>4, <2>1, <2>2 DEF Larger
  <2> QED BY <2>3 DEF OsFscMemSearch
<1>5. i = idx \/ i > idx
  <2> HIDE DEF i, idx
  <2> QED BY <1>1
<1> QED BY <1>3, <1>4, <1>5

\* A search clears only bits of empty lists.
LEMMA ClearFacts ==
  ASSUME Sound(heap), NEW size
  PROVE  LET r == [heap EXCEPT !.bitMap = @ \ Cleared(size)]
         IN  /\ Sound(r) /\ r.size = heap.size /\ r.next = heap.next
             /\ FreeBlocks(r) = FreeBlocks(heap) /\ UsedBlocks(r) = UsedBlocks(heap)
<1> DEFINE r == [heap EXCEPT !.bitMap = @ \ Cleared(size)]
           bm == heap.bitMap \ Cleared(size)
<1>1. heap \in HeapType /\ bm \in SUBSET Idx
  BY DEF Sound, HeapType
<1>2. \A i \in Idx : heap.list[i] # << >> => i \in bm
  BY DEF Sound, BitsOn, Cleared
<1>3. r = [heap EXCEPT !.bitMap = bm]
  OBVIOUS
<1> HIDE DEF r, bm
<1>4. /\ r \in HeapType /\ r.next = heap.next /\ r.size = heap.size
      /\ r.prevSize = heap.prevSize /\ r.list = heap.list /\ r.bitMap = bm
  BY <1>1, <1>3 DEF HeapType
<1>5. /\ Blocks(r) = Blocks(heap) /\ FreeBlocks(r) = FreeBlocks(heap)
      /\ UsedBlocks(r) = UsedBlocks(heap) /\ \A a : Behind(r, a) = Behind(heap, a)
  BY <1>4 DEF Blocks, FreeBlocks, UsedBlocks, Behind
<1>6. BitsOn(r)
  BY <1>2, <1>4 DEF BitsOn
<1>7. Listed(r, FreeBlocks(r))
  BY <1>4, <1>5, ListedFrame DEF Sound
<1>8. Closed(r) /\ Tiled(r) /\ \A a \in Blocks(r) : Tagged(r, a)
  BY <1>4, <1>5 DEF Sound, Closed, Tiled, Tagged
<1>9. Sound(r)
  BY <1>4, <1>5, <1>6, <1>7, <1>8 DEF Sound
<1> QED BY <1>4, <1>5, <1>9 DEF r

\* Handing out a whole block.
LEMMA TakeWhole ==
  ASSUME NEW h, Sound(h), NEW f \in FreeBlocks(h)
  PROVE  LET d == OsFscMemDelete(h, f)
             r == MarkUsed(d, f)
         IN  /\ Sound(r) /\ d.size = h.size /\ r.size = h.size
             /\ UsedBlocks(r) = UsedBlocks(h) \cup {f}
<1> DEFINE d == OsFscMemDelete(h, f)
           n == Behind(h, f)
           r == MarkUsed(d, f)
<1>0. h \in HeapType /\ Closed(h) /\ Tiled(h) /\ BitsOn(h) /\ f \in Blocks(h)
  BY DEF Sound, FreeBlocks
<1>1. f \in Addr /\ n \in Addr /\ f # n /\ n # Start /\ f # End
  BY <1>0, BlockFacts, ConstantFacts
<1>2. /\ d \in HeapType /\ d.next = h.next /\ d.size = h.size /\ d.prevSize = h.prevSize
      /\ Listed(d, FreeBlocks(h) \ {f}) /\ BitsOn(d)
  BY <1>0, <1>1, DeleteFacts DEF Sound
<1>3. /\ r \in HeapType /\ r.size = h.size /\ r.list = d.list /\ r.bitMap = d.bitMap
      /\ r.next = [h.next EXCEPT ![f] = "USED"]
      /\ r.prevSize = [h.prevSize EXCEPT ![n] = 0]
  <2> DEFINE ps == [h.prevSize EXCEPT ![n] = 0]
             nx == [h.next EXCEPT ![f] = "USED"]
  <2>1. r = [d EXCEPT !.prevSize = ps, !.next = nx]
    BY <1>2 DEF MarkUsed, Behind
  <2>2. ps \in [Addr -> Nat] /\ nx \in [Addr -> {"NULL", "LIST", "USED"}]
    BY <1>0, <1>1 DEF HeapType
  <2>3. d \in HeapType /\ d.size = h.size
    BY <1>2
  <2> HIDE DEF d, r, ps, nx
  <2> QED BY <2>1, <2>2, <2>3 DEF HeapType, ps, nx
<1> HIDE DEF d, r
<1>4. /\ \A a \in Addr : r.next[a] = IF a = f THEN "USED" ELSE h.next[a]
      /\ \A a \in Addr : r.prevSize[a] = IF a = n THEN 0 ELSE h.prevSize[a]
      /\ \A a : r.size[a] = h.size[a]
  BY <1>0, <1>1, <1>3 DEF HeapType
<1>5. Blocks(r) = Blocks(h) /\ \A a : Behind(r, a) = Behind(h, a)
  BY <1>4 DEF Blocks, Behind
<1>6. FreeBlocks(r) = FreeBlocks(h) \ {f} /\ UsedBlocks(r) = UsedBlocks(h) \cup {f}
  BY <1>0, <1>4, <1>5 DEF FreeBlocks, UsedBlocks, Blocks
<1>7. Closed(r) /\ Tiled(r) /\ BitsOn(r)
  <2>1. Closed(r)
    BY <1>0, <1>1, <1>4, ConstantFacts DEF Closed
  <2>2. Tiled(r)
    BY <1>0, <1>5 DEF Tiled
  <2> QED BY <1>2, <1>3, <2>1, <2>2 DEF BitsOn
<1>8. ASSUME NEW a \in Blocks(r) PROVE Tagged(r, a)
  <2>1. CASE a = f
    BY <1>1, <1>4, <1>5, <1>6, <2>1 DEF Tagged
  <2>2. CASE a # f
    <3>1. Behind(h, a) # n /\ Behind(h, a) \in Addr
      BY <1>0, <1>5, <2>2, BehindInjective, BlockFacts
    <3>2. Tagged(h, a) /\ (a \in FreeBlocks(r) <=> a \in FreeBlocks(h))
      BY <1>5, <1>6, <2>2 DEF Sound
    <3> QED BY <1>4, <1>5, <3>1, <3>2 DEF Tagged
  <2> QED BY <2>1, <2>2
<1>9. \A a \in FreeBlocks(r) : Behind(r, a) \notin FreeBlocks(r)
  BY <1>5, <1>6 DEF Sound
<1>10. Listed(r, FreeBlocks(r))
  BY <1>2, <1>3, <1>6, ListedFrame
<1> QED BY <1>2, <1>3, <1>6, <1>7, <1>8, <1>9, <1>10 DEF Sound, r, d

\* The heap in which Split has shortened a block of size old.
Shrunk(h, f, left, old) ==
  LET short == [h EXCEPT !.size[f] = left]
  IN  IF OS_FSC_MEM_SZ2IDX(left) = OS_FSC_MEM_SZ2IDX(old) THEN short
      ELSE OsFscMemInsert(OsFscMemDelete(short, f), f)

\* A block that shrinks goes to the list of its new size.
LEMMA ShrinkFacts ==
  ASSUME NEW h \in HeapType, BitsOn(h), NEW F \in SUBSET Addr, Listed(h, F), NEW f \in F,
         NEW left \in Nat \ {0}, NEW old, h.size[f] = old, h.next[f] # "USED"
  PROVE  LET moved == Shrunk(h, f, left, old)
         IN  /\ moved \in HeapType /\ BitsOn(moved) /\ Listed(moved, F)
             /\ moved.size = [h.size EXCEPT ![f] = left]
             /\ moved.prevSize = h.prevSize
             /\ \A a \in Addr : moved.next[a] = "USED" <=> h.next[a] = "USED"
<1> DEFINE sz    == [h.size EXCEPT ![f] = left]
           short == [h EXCEPT !.size[f] = left]
           dh    == OsFscMemDelete(h, f)
           ds    == OsFscMemDelete(short, f)
           moved == Shrunk(h, f, left, old)
<1>1. sz \in [Addr -> Nat] /\ sz[f] = left /\ \A a \in Addr \ {f} : sz[a] = h.size[a]
  BY DEF HeapType
<1>2. h \in HeapType /\ short = [h EXCEPT !.size = sz]
  OBVIOUS
<1>3. /\ short \in HeapType /\ short.next = h.next /\ short.size = sz
      /\ short.prevSize = h.prevSize /\ short.list = h.list /\ short.bitMap = h.bitMap
  <2> HIDE DEF short, sz
  <2> QED BY <1>1, <1>2 DEF HeapType
<1> HIDE DEF short, sz
<1>4. CASE OS_FSC_MEM_SZ2IDX(left) = OS_FSC_MEM_SZ2IDX(old)
  <2>1. moved = short
    BY <1>4 DEF Shrunk, short
  <2>2. BitsOn(short)
    BY <1>3 DEF BitsOn
  <2>3. \A a \in F : OS_FSC_MEM_SZ2IDX(short.size[a]) = OS_FSC_MEM_SZ2IDX(h.size[a])
    BY <1>1, <1>3, <1>4
  <2>4. Listed(short, F)
    BY <1>3, <2>3 DEF Listed
  <2> HIDE DEF moved
  <2>5. /\ moved \in HeapType /\ BitsOn(moved) /\ Listed(moved, F) /\ moved.size = sz
        /\ moved.prevSize = h.prevSize /\ moved.next = h.next
    BY <1>3, <2>1, <2>2, <2>4
  <2> QED BY <2>5 DEF moved, sz
<1>5. CASE OS_FSC_MEM_SZ2IDX(left) # OS_FSC_MEM_SZ2IDX(old)
  <2>1. moved = OsFscMemInsert(ds, f)
    BY <1>5 DEF Shrunk, short
  <2>2. dh \in HeapType /\ Listed(dh, F \ {f}) /\ (BitsOn(h) => BitsOn(dh)) /\ dh.bitMap = h.bitMap
    BY DeleteFacts
  <2>3. dh.list = [i \in Idx |-> RemoveFirst(h.list[i], f)]
    BY DEF OsFscMemDelete, HeapType
  <2>4. ds = [short EXCEPT !.list = dh.list]
    BY <1>3, <2>3 DEF OsFscMemDelete
  <2> HIDE DEF moved, ds, dh
  <2>5. dh.list \in [Idx -> Seq(Addr)]
    BY <2>2 DEF HeapType
  <2>6. /\ ds \in HeapType /\ ds.next = h.next /\ ds.size = sz /\ ds.prevSize = h.prevSize
        /\ ds.list = dh.list /\ ds.bitMap = h.bitMap
    BY <1>3, <2>4, <2>5 DEF HeapType
  <2>7. Listed(ds, F \ {f})
    <3>1. \A a \in F \ {f} : ds.size[a] = dh.size[a]
      <4>1. dh.size = h.size
        BY DeleteFacts DEF dh
      <4> QED BY <1>1, <2>6, <4>1
    <3> QED BY <2>2, <2>6, <3>1, ListedFrame
  <2>8. BitsOn(ds)
    BY <2>2, <2>6 DEF BitsOn
  <2>9. f \in Addr /\ ds.size[f] # 0 /\ f \notin F \ {f}
    BY <1>1, <2>6
  <2>10. /\ moved \in HeapType /\ moved.next = [ds.next EXCEPT ![f] = "LIST"]
         /\ moved.size = ds.size /\ moved.prevSize = ds.prevSize
         /\ Listed(moved, (F \ {f}) \cup {f}) /\ BitsOn(moved)
    BY <2>1, <2>6, <2>7, <2>8, <2>9, InsertFacts
  <2>11. (F \ {f}) \cup {f} = F
    OBVIOUS
  <2>12. \A a \in Addr : moved.next[a] = "USED" <=> h.next[a] = "USED"
    BY <2>6, <2>10 DEF HeapType
  <2>13. /\ moved \in HeapType /\ BitsOn(moved) /\ Listed(moved, F) /\ moved.size = sz
         /\ moved.prevSize = h.prevSize
    BY <2>6, <2>10, <2>11
  <2> QED BY <2>12, <2>13 DEF moved, sz
<1> QED BY <1>4, <1>5

\* Handing out the end of a block: what is left of it stays free.
LEMMA TakeEnd ==
  ASSUME NEW h, Sound(h), NEW f \in FreeBlocks(h), NEW s \in Nat \ {0},
         h.size[f] >= s + MinSize
  PROVE  LET b  == f + h.size[f] - s
             sp == Split(h, f, s)
             r  == MarkUsed(sp, b)
         IN  /\ Sound(r) /\ UsedBlocks(r) = UsedBlocks(h) \cup {b}
             /\ sp.size[b] = s /\ r.size[b] = s /\ b \in Addr /\ b \notin UsedBlocks(h)
             /\ \A a \in UsedBlocks(h) : r.size[a] = h.size[a]
<1> DEFINE left  == h.size[f] - s
           b     == f + h.size[f] - s
           n     == Behind(h, f)
           moved == Shrunk(h, f, left, left + s)
           sp    == Split(h, f, s)
           r     == MarkUsed(sp, b)
<1>0. h \in HeapType /\ Closed(h) /\ Tiled(h) /\ BitsOn(h) /\ f \in Blocks(h)
  BY DEF Sound, FreeBlocks
<1>1. /\ f \in Addr /\ f \in Nat /\ n \in Addr /\ n \in Nat /\ n # Start /\ f # End
      /\ h.size[f] \in Nat \ {0} /\ Start <= f /\ h.next[f] # "USED"
  BY <1>0, BlockFacts, ConstantFacts DEF FreeBlocks
<1>2. /\ left \in Nat \ {0} /\ left + s = h.size[f]
      /\ b \in Nat /\ b = f + left /\ b + s = n /\ f < b /\ b < n
  BY <1>1 DEF MinSize, HeadSize, Behind
<1>3. b \in Addr /\ b # End /\ b # Start
  BY <1>1, <1>2, ConstantFacts DEF Addr
<1>4. b \notin Blocks(h)
  BY <1>0, <1>1, <1>2 DEF Tiled
<1>5. /\ moved \in HeapType /\ BitsOn(moved) /\ Listed(moved, FreeBlocks(h))
      /\ moved.size = [h.size EXCEPT ![f] = left]
      /\ moved.prevSize = h.prevSize
      /\ \A a \in Addr : moved.next[a] = "USED" <=> h.next[a] = "USED"
  <2>1. FreeBlocks(h) \in SUBSET Addr /\ Listed(h, FreeBlocks(h)) /\ h.size[f] = left + s
    BY <1>2 DEF Sound, FreeBlocks, Blocks
  <2>2. left \in Nat \ {0}
    BY <1>2
  <2> HIDE DEF left
  <2> QED BY <1>0, <1>1, <2>1, <2>2, ShrinkFacts
<1>6. sp = [moved EXCEPT !.size[b] = s, !.prevSize[b] = left]
  BY <1>2 DEF Split, Shrunk
<1> HIDE DEF moved, sp, left, b
<1>7. /\ sp \in HeapType /\ sp.next = moved.next /\ sp.list = moved.list
      /\ sp.bitMap = moved.bitMap
      /\ sp.size = [moved.size EXCEPT ![b] = s]
      /\ sp.prevSize = [moved.prevSize EXCEPT ![b] = left]
  <2> DEFINE sz == [moved.size EXCEPT ![b] = s]
             ps == [moved.prevSize EXCEPT ![b] = left]
  <2>1. sp = [moved EXCEPT !.size = sz, !.prevSize = ps]
    BY <1>6
  <2>2. moved \in HeapType /\ sz \in [Addr -> Nat] /\ ps \in [Addr -> Nat]
    <3>1. moved.size \in [Addr -> Nat] /\ moved.prevSize \in [Addr -> Nat]
      BY <1>5 DEF HeapType
    <3> QED BY <1>2, <1>3, <1>5, <3>1
  <2> HIDE DEF sz, ps
  <2> QED BY <2>1, <2>2 DEF HeapType, sz, ps
<1>8. sp.size[b] = s /\ b + sp.size[b] = n
  <2>1. moved.size \in [Addr -> Nat]
    BY <1>5 DEF HeapType
  <2> QED BY <1>2, <1>3, <1>7, <2>1
<1>9. /\ r \in HeapType /\ r.size = sp.size /\ r.list = moved.list /\ r.bitMap = moved.bitMap
      /\ r.prevSize = [sp.prevSize EXCEPT ![n] = 0]
      /\ r.next = [sp.next EXCEPT ![b] = "USED"]
  <2> DEFINE ps == [sp.prevSize EXCEPT ![n] = 0]
             nx == [sp.next EXCEPT ![b] = "USED"]
  <2>1. r = [sp EXCEPT !.prevSize = ps, !.next = nx]
    BY <1>8 DEF MarkUsed
  <2>2. sp \in HeapType /\ ps \in [Addr -> Nat] /\ nx \in [Addr -> {"NULL", "LIST", "USED"}]
    <3>1. sp.prevSize \in [Addr -> Nat] /\ sp.next \in [Addr -> {"NULL", "LIST", "USED"}]
      BY <1>7 DEF HeapType
    <3> QED BY <1>1, <1>3, <1>7, <3>1
  <2> HIDE DEF r, ps, nx
  <2> QED BY <1>7, <2>1, <2>2 DEF HeapType, ps, nx
<1> HIDE DEF r
<1>10. /\ \A a \in Addr : r.size[a] = IF a = b THEN s ELSE IF a = f THEN left ELSE h.size[a]
       /\ \A a \in Addr : r.prevSize[a] = IF a = n THEN 0 ELSE IF a = b THEN left
                                          ELSE h.prevSize[a]
       /\ \A a \in Addr \ {b} : r.next[a] = "USED" <=> h.next[a] = "USED"
       /\ r.next[b] = "USED"
  <2>1. /\ h.size \in [Addr -> Nat] /\ h.prevSize \in [Addr -> Nat]
        /\ moved.next \in [Addr -> {"NULL", "LIST", "USED"}]
    BY <1>0, <1>5 DEF HeapType
  <2>2. \A a \in Addr : r.size[a] = IF a = b THEN s ELSE IF a = f THEN left ELSE h.size[a]
    BY <1>1, <1>3, <1>5, <1>7, <1>9, <2>1
  <2>3. \A a \in Addr : r.prevSize[a] = IF a = n THEN 0 ELSE IF a = b THEN left
                                        ELSE h.prevSize[a]
    BY <1>1, <1>3, <1>5, <1>7, <1>9, <2>1
  <2>4. r.next = [moved.next EXCEPT ![b] = "USED"]
    BY <1>7, <1>9
  <2> QED BY <1>3, <1>5, <2>1, <2>2, <2>3, <2>4
<1>11. Blocks(r) = Blocks(h) \cup {b}
  BY <1>0, <1>2, <1>3, <1>10 DEF Blocks
<1>12. FreeBlocks(r) = FreeBlocks(h) /\ UsedBlocks(r) = UsedBlocks(h) \cup {b}
  BY <1>3, <1>4, <1>10, <1>11 DEF FreeBlocks, UsedBlocks, Blocks
<1>13. Behind(r, f) = b /\ Behind(r, b) = n
  BY <1>1, <1>2, <1>3, <1>10 DEF Behind
<1>14. \A a \in Blocks(h) \ {f} : r.size[a] = h.size[a] /\ Behind(r, a) = Behind(h, a)
  BY <1>4, <1>10 DEF Behind, Blocks
<1>15. Closed(r)
  BY <1>0, <1>1, <1>2, <1>3, <1>10, ConstantFacts DEF Closed
<1>16. Tiled(r)
  <2>1. Start \in Blocks(r)
    BY <1>0, <1>11 DEF Tiled
  <2>2. \A a \in Blocks(r) : Behind(r, a) \in Blocks(r) \cup {End}
    BY <1>0, <1>11, <1>13, <1>14 DEF Tiled
  <2>3. ASSUME NEW a \in Blocks(r), NEW e \in Blocks(r) PROVE e <= a \/ Behind(r, a) <= e
    <3>1. a \in Nat /\ e \in Nat
      BY <1>0, <1>2, <1>11, BlockFacts
    <3>2. \A x, y \in Blocks(h) : y <= x \/ Behind(h, x) <= y
      BY <1>0 DEF Tiled
    <3>3. CASE a = f
      BY <1>1, <1>2, <1>11, <1>13, <3>1, <3>2, <3>3
    <3>4. CASE a = b
      <4>1. e # b => e <= f \/ n <= e
        BY <1>0, <1>11, <3>2
      <4> QED BY <1>1, <1>2, <1>13, <3>1, <3>4, <4>1
    <3>5. CASE a # f /\ a # b
      <4>1. a \in Blocks(h) /\ Behind(r, a) = Behind(h, a) /\ Behind(h, a) \in Nat
        BY <1>0, <1>11, <1>14, <3>5, BlockFacts
      <4>2. (f <= a \/ Behind(h, a) <= f) /\ (a <= f \/ n <= a)
        BY <1>0, <3>2, <4>1
      <4>3. e # b => e <= a \/ Behind(h, a) <= e
        BY <1>11, <3>2, <4>1
      <4> QED BY <1>1, <1>2, <3>1, <3>5, <4>1, <4>2, <4>3
    <3> QED BY <3>3, <3>4, <3>5
  <2> QED BY <2>1, <2>2, <2>3 DEF Tiled
<1>17. ASSUME NEW a \in Blocks(r) PROVE Tagged(r, a)
  <2>1. CASE a = f
    BY <1>1, <1>2, <1>3, <1>10, <1>12, <1>13, <2>1 DEF Tagged
  <2>2. CASE a = b
    BY <1>1, <1>4, <1>10, <1>12, <1>13, <2>2 DEF Tagged, FreeBlocks
  <2>3. CASE a # f /\ a # b
    <3>1. a \in Blocks(h) /\ Behind(h, a) # n /\ Behind(h, a) \in Addr /\ Behind(h, a) # b
      <4>1. a \in Blocks(h)
        BY <1>11, <2>3
      <4>2. Behind(h, a) \in Blocks(h) \cup {End}
        BY <1>0, <4>1 DEF Tiled
      <4> QED BY <1>0, <1>3, <1>4, <2>3, <4>1, <4>2, BehindInjective, BlockFacts
    <3>2. Tagged(h, a)
      BY <3>1 DEF Sound
    <3> QED BY <1>10, <1>12, <1>14, <2>3, <3>1, <3>2 DEF Tagged
  <2> QED BY <2>1, <2>2, <2>3
<1>18. \A a \in FreeBlocks(r) : Behind(r, a) \notin FreeBlocks(r)
  BY <1>4, <1>12, <1>13, <1>14 DEF Sound, FreeBlocks
<1>19. Listed(r, FreeBlocks(r)) /\ BitsOn(r)
  <2>1. \A a \in FreeBlocks(h) : r.size[a] = moved.size[a]
    <3>1. h.size \in [Addr -> Nat]
      BY <1>0 DEF HeapType
    <3> QED BY <1>4, <1>5, <1>10, <3>1 DEF FreeBlocks, Blocks
  <2>2. Listed(r, FreeBlocks(h))
    <3>1. Listed(moved, FreeBlocks(h)) /\ r.list = moved.list
      BY <1>5, <1>9
    <3> QED BY <2>1, <3>1, ListedFrame
  <2> QED BY <1>5, <1>9, <1>12, <2>2 DEF BitsOn
<1>20. \A a \in UsedBlocks(h) : r.size[a] = h.size[a]
  BY <1>1, <1>14 DEF UsedBlocks
<1>21. r.size[b] = s /\ b \notin UsedBlocks(h)
  BY <1>3, <1>4, <1>10 DEF UsedBlocks
<1>22. Sound(r)
  BY <1>9, <1>15, <1>16, <1>17, <1>18, <1>19 DEF Sound
<1> QED BY <1>3, <1>8, <1>12, <1>20, <1>21, <1>22 DEF r, sp, b

\* The user's area begins behind the header, at most one alignment further on.
LEMMA UsrAddrFacts ==
  ASSUME NEW blk \in Nat, NEW align \in Alignments
  PROVE  /\ align \in Nat \ {0} /\ UsrAddr(blk, align) \in Nat
         /\ blk + HeadSize <= UsrAddr(blk, align)
         /\ UsrAddr(blk, align) <= blk + HeadSize + align - 1
<1>1. align \in Nat \ {0}
  BY DEF Alignments
<1> DEFINE a == blk + HeadSize + align - 1
<1>2. a \in Nat
  BY <1>1 DEF HeadSize
<1>3. a % align \in 0 .. align - 1
  <2> HIDE DEF a
  <2> QED BY <1>1, <1>2
<1>4. UsrAddr(blk, align) = a - (a % align)
  BY DEF UsrAddr
<1> DEFINE m == a % align
<1> HIDE DEF m
<1>5. m \in 0 .. align - 1 /\ UsrAddr(blk, align) = a - m
  BY <1>3, <1>4 DEF m
<1> QED BY <1>1, <1>2, <1>5 DEF HeadSize

----------------------------------------------------------------------------
(* The inductive invariant.  HeapSound alone is not inductive: an insert   *)
(* relies on the header at the end of the heap, a search on the bits.      *)

FscMemIInv ==
  /\ Sound(heap)
  /\ held \subseteq [blk : Addr, addr : Nat, size : Nat, tail : {"MAGIC", "OVERWRITTEN"}]
  /\ UsedBlocks(heap) = {p.blk : p \in held}
  /\ AreasApart
  /\ offset \in [Addr -> Nat]

\* OsFscMemInit establishes it.
LEMMA InitIInv == OsFscMemInit => FscMemIInv
<1> SUFFICES ASSUME OsFscMemInit PROVE FscMemIInv
  OBVIOUS
<1> DEFINE size == HeapSize - HeadSize
           idx  == OS_FSC_MEM_SZ2IDX(size)
           nx   == [a \in Addr |-> IF a = Start THEN "LIST" ELSE IF a = End THEN "USED"
                                   ELSE "NULL"]
           sz   == [a \in Addr |-> IF a = Start THEN size ELSE 0]
           ps   == [a \in Addr |-> 0]
           ls   == [i \in Idx |-> IF i = idx THEN <<Start>> ELSE << >>]
<1>1. size \in Nat \ {0} /\ End = Start + size
  BY FscMemAssumption DEF HeadSize, End
<1>2. idx \in Idx
  <2> HIDE DEF size
  <2> QED BY <1>1, IdxFacts
<1>3. /\ heap = [next |-> nx, size |-> sz, prevSize |-> ps, list |-> ls, bitMap |-> {idx}]
      /\ held = {} /\ offset \in [Addr -> Nat]
  BY FscMemAssumption DEF OsFscMemInit
<1> HIDE DEF size, idx
<1>4. /\ nx \in [Addr -> {"NULL", "LIST", "USED"}] /\ sz \in [Addr -> Nat]
      /\ ps \in [Addr -> Nat] /\ ls \in [Idx -> Seq(Addr)]
  <2>1. <<Start>> \in Seq(Addr) /\ << >> \in Seq(Addr)
    BY ConstantFacts
  <2> QED BY <1>1, <2>1
<1> HIDE DEF nx, sz, ps, ls
<1>5. heap \in HeapType
  BY <1>2, <1>3, <1>4 DEF HeapType
<1>6. /\ heap.next = nx /\ heap.size = sz /\ heap.prevSize = ps /\ heap.list = ls
      /\ heap.bitMap = {idx}
  BY <1>3
<1>7. Closed(heap)
  BY <1>6, ConstantFacts DEF Closed, nx, sz, ps
<1>8. Blocks(heap) = {Start} /\ Behind(heap, Start) = End
  BY <1>1, <1>6, ConstantFacts DEF Blocks, Behind, sz
<1>9. FreeBlocks(heap) = {Start} /\ UsedBlocks(heap) = {}
  BY <1>6, <1>8, ConstantFacts DEF FreeBlocks, UsedBlocks, nx
<1>10. Tiled(heap) /\ \A a \in Blocks(heap) : Tagged(heap, a)
  BY <1>8, ConstantFacts DEF Tiled, Tagged
<1>11. BitsOn(heap)
  BY <1>6 DEF BitsOn, ls
<1>12. Listed(heap, FreeBlocks(heap))
  <2>1. heap.size[Start] = size
    BY <1>6, ConstantFacts DEF sz
  <2>2. OS_FSC_MEM_SZ2IDX(heap.size[Start]) = idx
    BY <2>1 DEF idx
  <2>3. ASSUME NEW i \in Idx
        PROVE  /\ IsInjective(heap.list[i])
               /\ ToSet(heap.list[i]) = {a \in {Start} : OS_FSC_MEM_SZ2IDX(heap.size[a]) = i}
    <3>1. heap.list[i] = IF i = idx THEN <<Start>> ELSE << >>
      BY <1>6 DEF ls
    <3>2. IsInjective(heap.list[i])
      BY <3>1 DEF IsInjective
    <3>3. ToSet(<<Start>>) = {Start} /\ ToSet(<< >>) = {}
      BY DEF ToSet
    <3> QED BY <2>2, <3>1, <3>2, <3>3
  <2> QED BY <1>9, <2>3 DEF Listed
<1>13. Sound(heap)
  BY <1>5, <1>7, <1>8, <1>9, <1>10, <1>11, <1>12, ConstantFacts DEF Sound
<1> QED BY <1>3, <1>9, <1>13 DEF FscMemIInv, AreasApart, HeadFound

\* Of a block that is in use no other header has its prev within the area.
LEMMA HeaderOutside ==
  ASSUME NEW h, Sound(h), NEW b \in UsedBlocks(h), NEW u \in Nat,
         b + HeadSize <= u, u < Behind(h, b)
  PROVE  /\ u \in Addr
         /\ u - HeadSize \in Blocks(h) => u - HeadSize = b
         /\ \A c \in Blocks(h) \ {b} : u < c \/ Behind(h, c) <= u
<1>0. h \in HeapType /\ Closed(h) /\ Tiled(h) /\ b \in Blocks(h)
  BY DEF Sound, UsedBlocks
<1>1. b \in Nat /\ Start <= b /\ Behind(h, b) \in Addr /\ Behind(h, b) \in Nat
  BY <1>0, BlockFacts
<1>2. u \in Addr
  BY <1>1, ConstantFacts DEF Addr, HeadSize
<1>3. ASSUME NEW c \in Blocks(h) \ {b} PROVE u < c \/ Behind(h, c) <= u
  <2>1. c \in Nat /\ Behind(h, c) \in Nat /\ c < Behind(h, c)
    BY <1>0, BlockFacts
  <2>2. (c <= b \/ Behind(h, b) <= c) /\ (b <= c \/ Behind(h, c) <= b)
    BY <1>0 DEF Tiled
  <2> QED BY <1>1, <2>1, <2>2 DEF HeadSize
<1>4. ASSUME u - HeadSize \in Blocks(h), u - HeadSize # b PROVE FALSE
  <2> DEFINE c == u - HeadSize
  <2>1. c \in Nat /\ Behind(h, c) \in Nat /\ c < Behind(h, c)
    BY <1>0, <1>4, BlockFacts
  <2>2. c <= b \/ Behind(h, b) <= c
    BY <1>0, <1>4 DEF Tiled
  <2> QED BY <1>1, <1>4, <2>1, <2>2 DEF HeadSize
<1> QED BY <1>2, <1>3, <1>4

\* Links writes half-words.
LEMMA LinksType ==
  ASSUME offset \in [Addr -> Nat], NEW g
  PROVE  Links(g) \in [Addr -> Nat]
  BY FscMemAssumption DEF Links

\* A call leaves the half-word of every pointer alone whose block stays in use.
LEMMA LinksKeep ==
  ASSUME FscMemIInv, NEW g, Sound(g), NEW p \in held,
         p.blk \in UsedBlocks(g), g.size[p.blk] = heap.size[p.blk]
  PROVE  /\ p.addr \in Addr /\ p.addr \in Nat
         /\ p.blk + HeadSize <= p.addr /\ p.addr < Behind(g, p.blk)
         /\ Links(g)[p.addr] = offset[p.addr]
<1> DEFINE u == p.addr
           b == p.blk
<1>1. /\ b \in UsedBlocks(heap) /\ b \in Nat /\ u \in Nat /\ p.size \in Nat
      /\ heap.size[b] \in Nat /\ b + HeadSize <= u
      /\ u + p.size <= b + heap.size[b] - TailSize
  <2>1. b \in UsedBlocks(heap) /\ u \in Nat /\ p.size \in Nat
    BY DEF FscMemIInv
  <2>2. b \in Nat /\ heap.size[b] \in Nat
    BY <2>1, BlockFacts DEF FscMemIInv, Sound, UsedBlocks
  <2> QED BY <2>1, <2>2 DEF FscMemIInv, AreasApart
<1>2. u < Behind(heap, b) /\ Behind(g, b) = Behind(heap, b)
  BY <1>1 DEF Behind, TailSize
<1>3. u - HeadSize \in Blocks(heap) => u - HeadSize = b
  BY <1>1, <1>2, HeaderOutside DEF FscMemIInv
<1>4. u \in Addr /\ (u - HeadSize \in Blocks(g) => u - HeadSize = b)
  BY <1>1, <1>2, HeaderOutside
<1>5. \A i \in Idx : u - HeadSize \notin ToSet(g.list[i])
  <2> SUFFICES ASSUME NEW i \in Idx, u - HeadSize \in ToSet(g.list[i]) PROVE FALSE
    OBVIOUS
  <2>1. u - HeadSize \in FreeBlocks(g)
    BY DEF Sound, Listed
  <2>2. u - HeadSize \in Blocks(g) /\ g.next[u - HeadSize] # "USED"
    BY <2>1 DEF FreeBlocks
  <2> QED BY <1>4, <2>2 DEF UsedBlocks
<1>6. ~ (heap.size[u - HeadSize] # 0 /\ g.size[u - HeadSize] = 0 /\ u - HeadSize \in Addr)
  BY <1>3 DEF Blocks, UsedBlocks
<1>7. u \in {q.addr : q \in held}
  OBVIOUS
<1> HIDE DEF u, b
<1>8. Links(g)[u] = offset[u]
  BY <1>4, <1>5, <1>6, <1>7 DEF Links
<1> QED BY <1>1, <1>2, <1>4, <1>8 DEF u, b

\* OsFscMemFree merges a block that is in use and keeps the invariant.
LEMMA FreeStep ==
  ASSUME FscMemIInv, NEW own \in held, OsFscMemFree(own.addr)
  PROVE  FscMemIInv'
<1> DEFINE blk == own.blk
           h1 == MergeNext(heap, blk)
           h2 == MergePrev(h1, blk)
           c  == blk - heap.prevSize[blk]
           i  == OsFscMemInsert(h2, c)
<1>0. OsMemGetHeadAddr(own.addr) = blk
  BY DEF FscMemIInv, AreasApart, HeadFound
<1>1. blk \in UsedBlocks(heap) /\ blk \in Blocks(heap)
  BY DEF FscMemIInv, UsedBlocks
<1>2. Open(heap, blk)
  <2>1. FreeBlocks(heap) \ {blk} = FreeBlocks(heap)
    BY <1>1 DEF FreeBlocks, UsedBlocks
  <2> QED BY <1>1, <2>1 DEF FscMemIInv, Sound, Open
<1>3. /\ Open(h1, blk) /\ UsersKept(heap, blk, h1, blk)
      /\ h1.prevSize[blk] = heap.prevSize[blk]
      /\ Behind(h1, blk) \notin FreeBlocks(h1)
  BY <1>2, MergeNextFacts
<1> HIDE DEF h1
<1>4. /\ Open(h2, c) /\ UsersKept(h1, blk, h2, c)
      /\ Behind(h2, c) \notin FreeBlocks(h2)
      /\ \A a \in FreeBlocks(h2) \ {c} : Behind(h2, a) # c
  BY <1>3, MergePrevFacts
<1>5. /\ heap' = [i EXCEPT !.prevSize[c + i.size[c]] = i.size[c]]
      /\ held' = {p \in held : p.blk # blk}
      /\ offset' = Links(heap')
  BY <1>0 DEF OsFscMemFree, h1
<1> HIDE DEF h2, c
<1>6. Sound(heap') /\ UsedBlocks(heap') = UsedBlocks(h2) \ {c} /\ heap'.size = h2.size
  BY <1>4, <1>5, CloseFacts
<1>7. UsedBlocks(heap') = UsedBlocks(heap) \ {blk}
  BY <1>3, <1>4, <1>6 DEF UsersKept
<1>8. \A a \in UsedBlocks(heap) \ {blk} : heap'.size[a] = heap.size[a]
  BY <1>3, <1>4, <1>6 DEF UsersKept
<1>9. UsedBlocks(heap') = {p.blk : p \in held'}
  BY <1>5, <1>7 DEF FscMemIInv
<1>10. AreasApart'
  <2>1. \A p \in held' : p \in held /\ p.blk \in UsedBlocks(heap) \ {blk}
    BY <1>5 DEF FscMemIInv
  <2>2. \A p \in held' : offset'[p.addr] = offset[p.addr]
    BY <1>5, <1>6, <1>7, <1>8, <2>1, LinksKeep
  <2>3. HeadFound'
    BY <2>1, <2>2 DEF FscMemIInv, AreasApart, HeadFound, OsMemGetHeadAddr
  <2> QED BY <1>8, <2>1, <2>3 DEF FscMemIInv, AreasApart
<1>11. offset' \in [Addr -> Nat]
  BY <1>5, LinksType DEF FscMemIInv
<1> QED BY <1>5, <1>6, <1>9, <1>10, <1>11 DEF FscMemIInv, Sound, UsedBlocks, Blocks

\* OsFscMemAllocInner keeps the invariant, whether it fails, splits a block or takes it.
LEMMA AllocStep ==
  ASSUME FscMemIInv, NEW req \in Request, OsFscMemAllocInner(req)
  PROVE  FscMemIInv'
<1> DEFINE size == AllocSize(req)
           h    == [heap EXCEPT !.bitMap = @ \ Cleared(size)]
<1>1. req.size \in Nat \ {0} /\ req.align \in Alignments /\ req.align \in Nat \ {0}
  <2>1. req \in [size : Nat \ {0}, align : Alignments]
    BY FscMemAssumption
  <2> QED BY <2>1 DEF Alignments
<1>2. size \in Nat \ {0} /\ size = req.size + req.align - 1 + HeadSize + TailSize
  BY <1>1 DEF AllocSize, HeadSize, TailSize
<1>3. /\ Sound(h) /\ h.size = heap.size
      /\ FreeBlocks(h) = FreeBlocks(heap) /\ UsedBlocks(h) = UsedBlocks(heap)
  BY ClearFacts DEF FscMemIInv
<1> HIDE DEF size
<1>4. CASE heap' = h /\ UNCHANGED <<offset, usage, held>>
  <2> HIDE DEF h
  <2>1. AreasApart'
    BY <1>3, <1>4 DEF FscMemIInv, AreasApart, HeadFound, OsMemGetHeadAddr
  <2>2. Sound(heap') /\ UsedBlocks(heap') = UsedBlocks(heap)
    BY <1>3, <1>4
  <2>3. held' = held /\ offset' = offset
    BY <1>4
  <2> QED BY <2>1, <2>2, <2>3 DEF FscMemIInv, Sound, UsedBlocks, Blocks
<1>5. ASSUME NEW f \in OsFscMemSearch(size),
             LET split == heap.size[f] >= size + MinSize
                 blk   == IF split THEN f + heap.size[f] - size ELSE f
                 g     == IF split THEN Split(h, f, size) ELSE OsFscMemDelete(h, f)
                 ctrl  == blk + HeadSize
                 addr  == UsrAddr(blk, req.align)
             IN  /\ heap' = MarkUsed(g, blk)
                 /\ offset' = [Links(heap') EXCEPT ![ctrl] = 0,
                                                   ![addr] = OsMemSetHeadAddr(addr, ctrl)]
                 /\ held' = held \cup {[blk |-> blk, addr |-> addr,
                                        size |-> req.size, tail |-> "MAGIC"]}
      PROVE  FscMemIInv'
  <2> DEFINE split == heap.size[f] >= size + MinSize
             blk   == IF split THEN f + heap.size[f] - size ELSE f
             g     == IF split THEN Split(h, f, size) ELSE OsFscMemDelete(h, f)
             new   == [blk |-> blk, addr |-> UsrAddr(blk, req.align),
                       size |-> req.size, tail |-> "MAGIC"]
  <2>1. f \in FreeBlocks(h) /\ heap.size[f] >= size /\ heap.size[f] \in Nat \ {0} /\ f \in Addr
    <3>1. f \in FreeBlocks(heap) /\ heap.size[f] >= size
      BY <1>2, SearchFacts DEF FscMemIInv
    <3> QED BY <1>3, <3>1, BlockFacts DEF FscMemIInv, Sound, FreeBlocks
  <2>2. /\ heap' = MarkUsed(g, blk)
        /\ held' = held \cup {new}
        /\ offset' = [Links(heap') EXCEPT ![blk + HeadSize] = 0,
                        ![UsrAddr(blk, req.align)] =
                            OsMemSetHeadAddr(UsrAddr(blk, req.align), blk + HeadSize)]
    BY <1>5
  <2> HIDE DEF h
  <2>3. /\ Sound(heap') /\ UsedBlocks(heap') = UsedBlocks(heap) \cup {blk}
        /\ blk \in Addr /\ g.size[blk] = heap'.size[blk]
        /\ heap'.size[blk] \in Nat /\ heap'.size[blk] >= size
        /\ \A a \in UsedBlocks(heap) : heap'.size[a] = heap.size[a]
        /\ blk \notin UsedBlocks(heap)
    <3>1. CASE split
      <4>1. /\ blk = f + h.size[f] - size /\ g = Split(h, f, size) /\ h.size[f] >= size + MinSize
        BY <1>3, <3>1
      <4> HIDE DEF blk, g
      <4>2. /\ Sound(heap') /\ UsedBlocks(heap') = UsedBlocks(h) \cup {blk}
            /\ g.size[blk] = size /\ heap'.size[blk] = size /\ blk \in Addr
            /\ \A a \in UsedBlocks(h) : heap'.size[a] = h.size[a]
            /\ blk \notin UsedBlocks(h)
        <5>1. Sound(h) /\ f \in FreeBlocks(h) /\ size \in Nat \ {0}
          BY <1>2, <1>3, <2>1
        <5>2. heap' = MarkUsed(Split(h, f, size), f + h.size[f] - size)
          BY <2>2, <4>1
        <5> QED BY <4>1, <5>1, <5>2, TakeEnd
      <4>3. g.size[blk] = heap'.size[blk] /\ heap'.size[blk] \in Nat /\ heap'.size[blk] >= size
        BY <1>2, <4>2
      <4>4. UsedBlocks(h) = UsedBlocks(heap) /\ h.size = heap.size
        BY <1>3
      <4> QED BY <4>2, <4>3, <4>4
    <3>2. CASE ~ split
      <4>1. blk = f /\ g = OsFscMemDelete(h, f)
        BY <3>2
      <4> HIDE DEF blk, g
      <4>2. /\ Sound(heap') /\ UsedBlocks(heap') = UsedBlocks(h) \cup {f}
            /\ g.size = h.size /\ heap'.size = h.size
        BY <1>3, <2>1, <2>2, <4>1, TakeWhole
      <4>3. f \notin UsedBlocks(h)
        BY <2>1 DEF FreeBlocks, UsedBlocks
      <4> QED BY <1>3, <2>1, <4>1, <4>2, <4>3
    <3> QED BY <3>1, <3>2
  <2> HIDE DEF blk, g, split
  <2>4. blk \in Nat
    BY <2>3, ConstantFacts
  <2>5. /\ UsrAddr(blk, req.align) \in Nat
        /\ blk + HeadSize <= UsrAddr(blk, req.align)
        /\ UsrAddr(blk, req.align) <= blk + HeadSize + req.align - 1
    BY <1>1, <2>4, UsrAddrFacts
  <2>6. /\ new.blk = blk /\ new.addr = UsrAddr(blk, req.align) /\ new.size = req.size
        /\ new \in [blk : Addr, addr : Nat, size : Nat, tail : {"MAGIC", "OVERWRITTEN"}]
    BY <1>1, <2>3, <2>5
  <2> HIDE DEF new
  <2>7. UsedBlocks(heap') = {p.blk : p \in held'}
    BY <2>2, <2>3, <2>6 DEF FscMemIInv
  <2>8. /\ new.blk + HeadSize <= new.addr
        /\ new.addr + new.size <= new.blk + heap'.size[new.blk] - TailSize
        /\ UsrAddr(blk, req.align) < Behind(heap', blk)
    <3> DEFINE u == UsrAddr(blk, req.align)
               z == heap'.size[blk]
               al == req.align
               rs == req.size
    <3>1. /\ u \in Nat /\ z \in Nat /\ al \in Nat /\ rs \in Nat
          /\ blk + HeadSize <= u /\ u <= blk + HeadSize + al - 1
          /\ size = rs + al - 1 + HeadSize + TailSize /\ z >= size
      BY <1>1, <1>2, <2>3, <2>5
    <3>2. /\ new.blk + HeadSize <= new.addr <=> blk + HeadSize <= u
          /\ new.addr + new.size <= new.blk + heap'.size[new.blk] - TailSize
               <=> u + rs <= blk + z - TailSize
          /\ UsrAddr(blk, req.align) < Behind(heap', blk) <=> u < blk + z
      BY <2>6 DEF Behind
    <3> HIDE DEF u, z, al, rs
    <3>3. u + rs <= blk + z - TailSize /\ u < blk + z
      BY <2>4, <3>1 DEF HeadSize, TailSize
    <3> QED BY <3>1, <3>2, <3>3
  <2>9. HeadFound' /\ offset' \in [Addr -> Nat]
    <3> DEFINE u == UsrAddr(blk, req.align)
               c == blk + HeadSize
               v == OsMemSetHeadAddr(u, c)
               k == Links(heap')
    <3>1. /\ u \in Nat /\ c \in Nat /\ c <= u /\ u < Behind(heap', blk)
          /\ blk \in UsedBlocks(heap') /\ blk \in Blocks(heap')
      BY <2>3, <2>4, <2>5, <2>8 DEF HeadSize, UsedBlocks
    <3>2. Behind(heap', blk) \in Nat /\ c < Behind(heap', blk)
      <4>1. Behind(heap', blk) \in Nat
        BY <2>3, <3>1, BlockFacts DEF Sound
      <4> QED BY <3>1, <4>1
    <3>3. v = u - c /\ v \in Nat
      <4> DEFINE al == req.align
      <4>1. u <= c + al - 1 /\ al \in Nat /\ al <= 2048
        BY <1>1, <2>5 DEF Alignments
      <4>2. v = (u - c) % 8192
        BY DEF OsMemSetHeadAddr
      <4> HIDE DEF u, c, v, al
      <4>3. u - c \in Nat /\ u - c < 8192
        BY <3>1, <4>1
      <4>4. (u - c) % 8192 = u - c
        BY <4>3
      <4> QED BY <4>2, <4>3, <4>4
    <3>4. /\ k \in [Addr -> Nat] /\ u \in Addr
          /\ offset' = [[k EXCEPT ![c] = 0] EXCEPT ![u] = v]
      <4>1. k \in [Addr -> Nat]
        BY LinksType DEF FscMemIInv
      <4>2. u \in Addr
        BY <2>3, <3>1, HeaderOutside
      <4> QED BY <2>2, <4>1, <4>2
    <3>5. ASSUME NEW p \in held PROVE offset'[p.addr] = offset[p.addr]
      <4>1. p.blk \in UsedBlocks(heap) /\ p.blk \in UsedBlocks(heap')
        BY <2>3 DEF FscMemIInv
      <4>2. /\ p.addr \in Addr /\ p.addr \in Nat /\ p.blk + HeadSize <= p.addr
            /\ p.addr < Behind(heap', p.blk) /\ k[p.addr] = offset[p.addr]
        BY <2>3, <4>1, LinksKeep
      <4>3. blk # p.blk
        BY <2>3, <4>1
      <4>4. p.addr < blk \/ Behind(heap', blk) <= p.addr
        BY <2>3, <3>1, <4>1, <4>2, <4>3, HeaderOutside
      <4>5. p.addr # c /\ p.addr # u
        BY <2>4, <3>1, <3>2, <4>2, <4>4 DEF HeadSize
      <4> HIDE DEF u, c, v, k
      <4> QED BY <3>4, <4>2, <4>5
    <3>6. offset'[u] = v
      <4> HIDE DEF u, c, v, k
      <4> QED BY <3>4
    <3>7. offset' \in [Addr -> Nat]
      <4>1. v \in Nat
        BY <3>3
      <4> HIDE DEF u, c, v, k
      <4> QED BY <3>4, <4>1
    <3>8. ASSUME NEW p \in held' PROVE p.addr - offset'[p.addr] - HeadSize = p.blk
      <4>1. CASE p \in held
        BY <3>5, <4>1 DEF FscMemIInv, AreasApart, HeadFound, OsMemGetHeadAddr
      <4>2. CASE p = new
        <5>1. p.addr = u /\ p.blk = blk
          BY <2>6, <4>2
        <5>2. c - HeadSize = blk
          BY <2>4 DEF HeadSize
        <5> HIDE DEF u, c, v, k
        <5>3. u - (u - c) = c
          BY <3>1
        <5> QED BY <3>3, <3>6, <5>1, <5>2, <5>3
      <4> QED BY <2>2, <4>1, <4>2
    <3> QED BY <3>7, <3>8 DEF HeadFound, OsMemGetHeadAddr
  <2>10. AreasApart'
    <3>1. ASSUME NEW p \in held
          PROVE  /\ p.blk + HeadSize <= p.addr
                 /\ p.addr + p.size <= p.blk + heap'.size[p.blk] - TailSize
      <4>1. p.blk \in UsedBlocks(heap)
        BY DEF FscMemIInv
      <4> QED BY <2>3, <4>1 DEF FscMemIInv, AreasApart
    <3> QED BY <2>2, <2>8, <2>9, <3>1 DEF AreasApart
  <2>11. held' \subseteq [blk : Addr, addr : Nat, size : Nat, tail : {"MAGIC", "OVERWRITTEN"}]
    BY <2>2, <2>6 DEF FscMemIInv
  <2> QED BY <2>3, <2>7, <2>9, <2>10, <2>11 DEF FscMemIInv, Sound, UsedBlocks, Blocks
<1> QED BY <1>4, <1>5 DEF OsFscMemAllocInner, size

\* A word written over its end damages nothing but the tail of an area.
LEMMA OverrunStep ==
  ASSUME FscMemIInv, NEW p \in held, Overrun(p)
  PROVE  FscMemIInv'
<1> DEFINE q == [p EXCEPT !.tail = "OVERWRITTEN"]
           T == [blk : Addr, addr : Nat, size : Nat, tail : {"MAGIC", "OVERWRITTEN"}]
<1>1. p \in T
  BY DEF FscMemIInv
<1>2. q \in T /\ q.blk = p.blk /\ q.addr = p.addr /\ q.size = p.size
  BY <1>1
<1>3. held' = (held \ {p}) \cup {q} /\ heap' = heap /\ offset' = offset
  BY DEF Overrun
<1> HIDE DEF q
<1>4. {r.blk : r \in held'} = {r.blk : r \in held}
  BY <1>2, <1>3
<1>5. AreasApart'
  BY <1>2, <1>3 DEF FscMemIInv, AreasApart, HeadFound, OsMemGetHeadAddr
<1>6. held' \subseteq T
  BY <1>2, <1>3 DEF FscMemIInv
<1> QED BY <1>3, <1>4, <1>5, <1>6 DEF FscMemIInv

----------------------------------------------------------------------------
(* Theorems.                                                               *)

\* The invariant is inductive.
LEMMA FscMemInductive == FscMemSpec => []FscMemIInv
<1>1. FscMemIInv /\ [FscMemNext]_fscVars => FscMemIInv'
  <2> SUFFICES ASSUME FscMemIInv, [FscMemNext]_fscVars PROVE FscMemIInv'
    OBVIOUS
  <2>1. ASSUME NEW req \in Request, OsFscMemAllocInner(req) PROVE FscMemIInv'
    BY <2>1, AllocStep
  <2>2. ASSUME NEW p \in held, OsFscMemFree(p.addr) PROVE FscMemIInv'
    BY <2>2, FreeStep
  <2>3. ASSUME NEW p \in held, Overrun(p) PROVE FscMemIInv'
    BY <2>3, OverrunStep
  <2>4. CASE UNCHANGED fscVars
    BY <2>4 DEF fscVars, FscMemIInv, AreasApart, HeadFound, OsMemGetHeadAddr
  <2> QED BY <2>1, <2>2, <2>3, <2>4 DEF FscMemNext
<1> QED BY <1>1, InitIInv, PTL DEF FscMemSpec

\* Whatever is allocated and freed, the blocks of OsFscMemAllocInner and OsFscMemFree tile the heap, no two free ones are neighbours, every header knows
\* whether the block before it is free, every free block hangs once, in the list of its
\* size, and the blocks in use are those the callers hold.
THEOREM HeapCorrect == FscMemSpec => []HeapSound
<1>1. FscMemIInv => HeapSound
  BY DEF FscMemIInv, Sound, HeapSound
<1> QED BY <1>1, FscMemInductive, PTL

\* OsFscMemSearch fails only if no free block is large enough, although it clears bits
\* of g_fscMemBitMap on its way.
THEOREM AllocNeverMisses == FscMemSpec => []AllocComplete
<1>1. FscMemIInv => AllocComplete
  <2> SUFFICES ASSUME FscMemIInv, NEW req \in Request, NEW a \in FreeBlocks(heap),
                      heap.size[a] >= AllocSize(req)
               PROVE  OsFscMemSearch(AllocSize(req)) # {}
    BY DEF AllocComplete
  <2>1. AllocSize(req) \in Nat \ {0}
    <3>1. req \in [size : Nat \ {0}, align : Alignments]
      BY FscMemAssumption
    <3> QED BY <3>1 DEF Alignments, AllocSize, HeadSize, TailSize
  <2> QED BY <2>1, SearchComplete DEF FscMemIInv
<1> QED BY <1>1, FscMemInductive, PTL

\* The area that OsFscMemAllocInner returns lies between the header and the tail word
\* of its block, for every alignment and size, and its half-word leads to the header.
THEOREM AreasNeverMeet == FscMemSpec => []AreasApart
<1>1. FscMemIInv => AreasApart
  BY DEF FscMemIInv
<1> QED BY <1>1, FscMemInductive, PTL

\* OsFscMemFree finds the header of every pointer held: no call that links, merges or
\* zeroes headers writes over the half-word that OsMemSetHeadAddr left in front of the
\* area, and no alignment overflows it.
THEOREM HeadAlwaysFound == FscMemSpec => []HeadFound
<1>1. FscMemIInv => HeadFound
  BY DEF FscMemIInv, AreasApart
<1> QED BY <1>1, FscMemInductive, PTL
=============================================================================
