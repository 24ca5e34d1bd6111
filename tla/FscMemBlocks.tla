---------------------------- MODULE FscMemBlocks ----------------------------
(***************************************************************************)
(* Facts about the blocks of the FSC allocator, for every heap: sizes and  *)
(* their lists, neighbours, and what releasing a block does to them.       *)
(***************************************************************************)
EXTENDS FscMem, ListProofs

----------------------------------------------------------------------------
(* What holds of a heap at any time.                                       *)

HeapType ==
  [next : [Addr -> {"NULL", "LIST", "USED"}], size : [Addr -> Nat],
   prevSize : [Addr -> Nat], list : [Idx -> Seq(Addr)], bitMap : SUBSET Idx]

\* A list that is not empty has its bit.
BitsOn(h) == \A i \in Idx : h.list[i] # << >> => i \in h.bitMap

\* Nothing merges with what is outside the heap.
Closed(h) == h.prevSize[Start] = 0 /\ h.size[End] = 0 /\ h.next[End] = "USED"

----------------------------------------------------------------------------
(* Numbers.                                                                *)

\* The heap is not empty and there is at least one list.
LEMMA ConstantFacts ==
  /\ Start \in Nat /\ End \in Nat /\ Start < End /\ LastIdx \in Nat \ {0}
  /\ Start \in Addr /\ End \in Addr /\ Addr \subseteq Nat /\ Idx \subseteq Nat
<1>1. LastIdx # 0
  <2> SUFFICES ASSUME LastIdx = 0 PROVE FALSE
    OBVIOUS
  <2>1. 2 ^ 0 = 1
    OBVIOUS
  <2>2. MaxVal = 0
    BY <2>1 DEF MaxVal
  <2> QED BY <2>2, FscMemAssumption DEF HeadSize
<1> QED BY <1>1, FscMemAssumption DEF HeadSize, End, Addr, Idx

\* A set of list numbers has a last one.
LEMMA MaxOfIdx ==
  ASSUME NEW S \in SUBSET Idx, S # {}
  PROVE  Max(S) \in S /\ \A i \in S : i <= Max(S)
<1> DEFINE T == {LastIdx - i : i \in S}
<1>0. LastIdx \in Nat /\ \A i \in S : i \in Nat /\ LastIdx - i \in Nat
  BY ConstantFacts DEF Idx
<1>1. T \in SUBSET Nat /\ T # {}
  BY <1>0
<1>2. Min(T) \in T /\ \A y \in T : Min(T) <= y
  <2> HIDE DEF T
  <2> QED BY <1>1, MinOfNat
<1>3. PICK m \in S : Min(T) = LastIdx - m
  BY <1>2
<1>4. \A i \in S : LastIdx - m <= LastIdx - i
  BY <1>2, <1>3
<1>5. \A i \in S : m >= i
  BY <1>0, <1>4
<1>6. Max(S) \in S /\ \A i \in S : Max(S) >= i
  BY <1>5 DEF Max
<1> QED BY <1>0, <1>6

\* The list of a size is the last one whose power of two it reaches.
LEMMA IdxFacts ==
  ASSUME NEW n \in Nat \ {0}
  PROVE  LET idx == OS_FSC_MEM_SZ2IDX(n)
         IN  /\ idx \in Idx
             /\ 2 ^ idx <= n
             /\ \A i \in Idx : 2 ^ i <= n => i <= idx
<1> DEFINE S == {i \in Idx : 2 ^ i <= n}
<1>1. 0 \in S
  <2>1. 2 ^ 0 = 1
    OBVIOUS
  <2>2. 0 \in Idx /\ 1 <= n
    BY ConstantFacts DEF Idx
  <2> QED BY <2>1, <2>2
<1>2. S \in SUBSET Idx /\ S # {}
  BY <1>1
<1>3. Max(S) \in S /\ \A i \in S : i <= Max(S)
  <2> HIDE DEF S
  <2> QED BY <1>2, MaxOfIdx
<1> QED BY <1>3 DEF OS_FSC_MEM_SZ2IDX

\* A larger block does not hang in an earlier list.
LEMMA IdxMonotone ==
  ASSUME NEW m \in Nat \ {0}, NEW n \in Nat \ {0}, m <= n
  PROVE  OS_FSC_MEM_SZ2IDX(m) <= OS_FSC_MEM_SZ2IDX(n)
<1> DEFINE i == OS_FSC_MEM_SZ2IDX(m)
           p == 2 ^ i
<1>1. i \in Idx /\ p <= m
  BY IdxFacts
<1> HIDE DEF i
<1>2. i \in Nat
  BY <1>1, ConstantFacts
<1>3. p \in Int
  BY <1>2
<1>4. p <= n
  <2> HIDE DEF p
  <2> QED BY <1>1, <1>3
<1> QED BY <1>1, <1>4, IdxFacts DEF i

----------------------------------------------------------------------------
(* Lists.                                                                  *)

\* Taking a block off: the other blocks stay listed.
LEMMA DeleteFacts ==
  ASSUME NEW h \in HeapType, NEW b \in Addr, NEW F, Listed(h, F)
  PROVE  LET r == OsFscMemDelete(h, b)
         IN  /\ r \in HeapType /\ r.next = h.next /\ r.size = h.size
             /\ r.prevSize = h.prevSize /\ r.bitMap = h.bitMap
             /\ Listed(r, F \ {b})
             /\ BitsOn(h) => BitsOn(r)
<1> DEFINE r == OsFscMemDelete(h, b)
           l == [i \in Idx |-> RemoveFirst(h.list[i], b)]
<1>1. r = [h EXCEPT !.list = l]
  BY DEF OsFscMemDelete, HeapType
<1> HIDE DEF r
<1>2. ASSUME NEW i \in Idx
      PROVE  /\ l[i] \in Seq(Addr)
             /\ IsInjective(l[i])
             /\ ToSet(l[i]) = ToSet(h.list[i]) \ {b}
             /\ l[i] # << >> => h.list[i] # << >>
  <2>1. h.list[i] \in Seq(Addr) /\ IsInjective(h.list[i])
    BY DEF HeapType, Listed
  <2>2. h.list[i] = << >> => RemoveFirst(h.list[i], b) = << >>
    BY <2>1 DEF RemoveFirst
  <2> QED BY <2>1, <2>2, RemoveFirstFacts
<1>3. l \in [Idx -> Seq(Addr)]
  BY <1>2
<1> HIDE DEF l
<1>4. /\ r \in HeapType /\ r.next = h.next /\ r.size = h.size
      /\ r.prevSize = h.prevSize /\ r.bitMap = h.bitMap /\ r.list = l
  BY <1>1, <1>3 DEF HeapType
<1>5. Listed(r, F \ {b})
  BY <1>2, <1>4 DEF Listed
<1>6. BitsOn(h) => BitsOn(r)
  BY <1>2, <1>4 DEF BitsOn
<1> QED BY <1>4, <1>5, <1>6 DEF r

\* Linking a block in.
LEMMA InsertFacts ==
  ASSUME NEW h \in HeapType, NEW b \in Addr, h.size[b] # 0,
         NEW F, b \notin F, Listed(h, F)
  PROVE  LET r == OsFscMemInsert(h, b)
         IN  /\ r \in HeapType /\ r.next = [h.next EXCEPT ![b] = "LIST"]
             /\ r.size = h.size /\ r.prevSize = h.prevSize
             /\ Listed(r, F \cup {b})
             /\ BitsOn(h) => BitsOn(r)
<1> DEFINE r == OsFscMemInsert(h, b)
           idx == OS_FSC_MEM_SZ2IDX(h.size[b])
           new == <<b>> \o h.list[idx]
<1>0. h.size[b] \in Nat \ {0}
  BY DEF HeapType
<1>1. idx \in Idx
  BY <1>0, IdxFacts
<1>2. r = [h EXCEPT !.list[idx] = new, !.bitMap = h.bitMap \cup {idx},
                    !.next[b] = "LIST"]
  BY DEF OsFscMemInsert
<1>3. h.list[idx] \in Seq(Addr) /\ IsInjective(h.list[idx]) /\ b \notin ToSet(h.list[idx])
  BY <1>1 DEF HeapType, Listed
<1>4. new \in Seq(Addr) /\ IsInjective(new) /\ ToSet(new) = ToSet(h.list[idx]) \cup {b}
  BY <1>3, PrependFacts
<1> HIDE DEF r, new
<1>5. \A a \in F \cup {b} : OS_FSC_MEM_SZ2IDX(h.size[a]) = idx <=>
        a = b \/ (a \in F /\ OS_FSC_MEM_SZ2IDX(h.size[a]) = idx)
  OBVIOUS
<1> HIDE DEF idx
<1> DEFINE nx == [h.next EXCEPT ![b] = "LIST"]
           ls == [h.list EXCEPT ![idx] = new]
           bm == h.bitMap \cup {idx}
<1>6. /\ r \in HeapType /\ r.next = nx /\ r.size = h.size /\ r.prevSize = h.prevSize
      /\ r.bitMap = bm /\ r.list = ls
  <2>1. /\ nx \in [Addr -> {"NULL", "LIST", "USED"}] /\ ls \in [Idx -> Seq(Addr)]
        /\ bm \in SUBSET Idx
    BY <1>1, <1>4 DEF HeapType
  <2>2. r = [h EXCEPT !.list = ls, !.bitMap = bm, !.next = nx]
    BY <1>2 DEF HeapType
  <2> HIDE DEF nx, ls, bm
  <2> QED BY <2>1, <2>2 DEF HeapType
<1>7. \A i \in Idx : r.list[i] = IF i = idx THEN new ELSE h.list[i]
  BY <1>6 DEF HeapType
<1>8. Listed(r, F \cup {b})
  <2> SUFFICES ASSUME NEW i \in Idx
               PROVE  /\ IsInjective(r.list[i])
                      /\ ToSet(r.list[i])
                           = {a \in F \cup {b} : OS_FSC_MEM_SZ2IDX(h.size[a]) = i}
    BY <1>6 DEF Listed
  <2>1. /\ IsInjective(h.list[i])
        /\ ToSet(h.list[i]) = {a \in F : OS_FSC_MEM_SZ2IDX(h.size[a]) = i}
    BY DEF Listed
  <2>2. CASE i = idx
    BY <2>1, <2>2, <1>4, <1>5, <1>7 DEF idx
  <2>3. CASE i # idx
    BY <2>1, <2>3, <1>7 DEF idx
  <2> QED BY <2>2, <2>3
<1>9. BitsOn(h) => BitsOn(r)
  BY <1>6, <1>7 DEF BitsOn
<1> QED BY <1>6, <1>8, <1>9 DEF r

\* Whether blocks are listed depends on the lists and on the sizes of these blocks.
LEMMA ListedFrame ==
  ASSUME NEW h, NEW r, NEW F, Listed(h, F), r.list = h.list,
         \A a \in F : r.size[a] = h.size[a]
  PROVE  Listed(r, F)
  BY DEF Listed

----------------------------------------------------------------------------
(* Neighbours.                                                             *)

\* Where blocks are.
LEMMA BlockFacts ==
  ASSUME NEW h \in HeapType, Closed(h), Tiled(h), NEW a \in Blocks(h)
  PROVE  /\ a \in Addr /\ a \in Nat /\ Start <= a /\ a < End
         /\ h.size[a] \in Nat \ {0}
         /\ Behind(h, a) \in Addr /\ Behind(h, a) \in Nat /\ a < Behind(h, a)
         /\ Behind(h, a) # Start
<1>1. a \in Addr /\ h.size[a] \in Nat \ {0} /\ a # End
  BY DEF Blocks, HeapType, Closed
<1>2. a \in Nat /\ Start <= a /\ a < End
  BY <1>1, ConstantFacts DEF Addr
<1>3. Behind(h, a) \in Blocks(h) \cup {End}
  BY DEF Tiled
<1>4. Behind(h, a) \in Addr
  BY <1>3, ConstantFacts DEF Blocks
<1>5. Behind(h, a) \in Nat /\ a < Behind(h, a)
  BY <1>1, <1>2 DEF Behind
<1> QED BY <1>1, <1>2, <1>4, <1>5, ConstantFacts

\* Two blocks do not end at the same place.
LEMMA BehindInjective ==
  ASSUME NEW h \in HeapType, Closed(h), Tiled(h), NEW a \in Blocks(h), NEW b \in Blocks(h),
         Behind(h, a) = Behind(h, b)
  PROVE  a = b
<1>1. /\ a \in Nat /\ b \in Nat /\ Behind(h, a) \in Nat
      /\ a < Behind(h, a) /\ b < Behind(h, b)
  BY BlockFacts
<1>2. (b <= a \/ Behind(h, a) <= b) /\ (a <= b \/ Behind(h, b) <= a)
  BY DEF Tiled
<1> QED BY <1>1, <1>2

\* Every block but the first begins where another one ends.
LEMMA Predecessor ==
  ASSUME NEW h \in HeapType, Closed(h), Tiled(h), NEW b \in Blocks(h), b # Start
  PROVE  \E a \in Blocks(h) : Behind(h, a) = b
<1> DEFINE S == {a \in Blocks(h) : a < b}
           T == {b - a : a \in S}
<1>1. \A a \in Blocks(h) : /\ a \in Nat /\ Start <= a /\ a < End
                           /\ Behind(h, a) \in Nat /\ a < Behind(h, a)
  BY BlockFacts
<1>2. Start \in S /\ Start \in Nat
  BY <1>1, ConstantFacts DEF Tiled
<1>3. T \in SUBSET Nat /\ T # {}
  BY <1>1, <1>2
<1>4. Min(T) \in T /\ \A y \in T : Min(T) <= y
  <2> HIDE DEF T
  <2> QED BY <1>3, MinOfNat
<1>5. PICK a \in S : Min(T) = b - a
  BY <1>4
<1>6. \A c \in S : b - a <= b - c
  BY <1>4, <1>5
<1>7. \A c \in S : c <= a
  BY <1>1, <1>6
<1>8. Behind(h, a) <= b
  BY <1>1, <1>5 DEF Tiled
<1>9. Behind(h, a) \in Blocks(h)
  BY <1>1, <1>8, ConstantFacts DEF Tiled
<1> QED BY <1>1, <1>5, <1>7, <1>8, <1>9

----------------------------------------------------------------------------
(* Release.  While a block c is merged it is in no list and the block      *)
(* behind it may not know its size.                                        *)

Open(h, c) ==
  /\ h \in HeapType /\ Closed(h) /\ Tiled(h) /\ BitsOn(h)
  /\ c \in Blocks(h)
  /\ \A a \in Blocks(h) \ {c} : Tagged(h, a)
  /\ \A a \in FreeBlocks(h) \ {c} : Behind(h, a) \notin FreeBlocks(h) \ {c}
  /\ Listed(h, FreeBlocks(h) \ {c})

\* What merging leaves of the other blocks in use.
UsersKept(h, c, r, d) ==
  /\ UsedBlocks(r) \ {d} = UsedBlocks(h) \ {c}
  /\ \A a \in UsedBlocks(h) \ {c} : r.size[a] = h.size[a]

\* Block c takes in n, whose header is zeroed.
Fused(h, r, c, n) ==
  /\ r.size = [[h.size EXCEPT ![c] = h.size[c] + h.size[n]] EXCEPT ![n] = 0]
  /\ r.next = [h.next EXCEPT ![n] = "NULL"]
  /\ r.prevSize = [h.prevSize EXCEPT ![n] = 0]

\* Nothing but these two blocks is affected.
LEMMA FuseFacts ==
  ASSUME NEW h \in HeapType, Closed(h), Tiled(h), NEW c \in Blocks(h), NEW n \in Blocks(h),
         Behind(h, c) = n, NEW r \in HeapType, Fused(h, r, c, n)
  PROVE  /\ Closed(r) /\ Tiled(r)
         /\ Blocks(r) = Blocks(h) \ {n}
         /\ FreeBlocks(r) = FreeBlocks(h) \ {n}
         /\ UsedBlocks(r) = UsedBlocks(h) \ {n}
         /\ Behind(r, c) = Behind(h, n) /\ c # n
         /\ \A a \in Blocks(r) \ {c} :
              /\ r.size[a] = h.size[a]
              /\ Behind(r, a) = Behind(h, a)
              /\ Tagged(h, a) => Tagged(r, a)
<1>1. /\ c \in Addr /\ n \in Addr /\ c \in Nat /\ n \in Nat /\ c < n
      /\ n # Start /\ n # End /\ c # End
      /\ h.size[c] \in Nat \ {0} /\ h.size[n] \in Nat \ {0}
      /\ Behind(h, n) \in Nat /\ n < Behind(h, n)
  BY BlockFacts, ConstantFacts
<1>2. /\ \A a \in Addr : r.size[a] = IF a = n THEN 0 ELSE IF a = c THEN h.size[c] + h.size[n]
                                     ELSE h.size[a]
      /\ \A a \in Addr : r.next[a] = IF a = n THEN "NULL" ELSE h.next[a]
      /\ \A a \in Addr : r.prevSize[a] = IF a = n THEN 0 ELSE h.prevSize[a]
  BY <1>1 DEF Fused, HeapType
<1>3. Closed(r)
  BY <1>1, <1>2, ConstantFacts DEF Closed
<1>4. Blocks(r) = Blocks(h) \ {n}
  BY <1>1, <1>2 DEF Blocks
<1>5. FreeBlocks(r) = FreeBlocks(h) \ {n} /\ UsedBlocks(r) = UsedBlocks(h) \ {n}
  BY <1>2, <1>4 DEF FreeBlocks, UsedBlocks, Blocks
<1>6. Behind(r, c) = Behind(h, n)
  BY <1>1, <1>2 DEF Behind
<1>7. \A a \in Blocks(r) \ {c} : r.size[a] = h.size[a] /\ Behind(r, a) = Behind(h, a)
  BY <1>2, <1>4 DEF Behind, Blocks
<1>8. \A a \in Blocks(r) \ {c} : Behind(h, a) # n
  BY <1>4, BehindInjective
<1>9. Tiled(r)
  <2>1. Start \in Blocks(r)
    BY <1>1, <1>4 DEF Tiled
  <2>2. \A a \in Blocks(r) : Behind(r, a) \in Blocks(r) \cup {End}
    <3>1. Behind(h, n) \in (Blocks(h) \cup {End}) \ {n}
      BY <1>1 DEF Tiled
    <3> QED BY <1>4, <1>6, <1>7, <1>8, <3>1 DEF Tiled
  <2>3. ASSUME NEW a \in Blocks(r), NEW b \in Blocks(r) PROVE b <= a \/ Behind(r, a) <= b
    <3>1. CASE a # c
      BY <1>4, <1>7, <3>1 DEF Tiled
    <3>2. CASE a = c
      <4>1. (b <= c \/ n <= b) /\ (b <= n \/ Behind(h, n) <= b) /\ b # n
        BY <1>4 DEF Tiled
      <4>2. b \in Nat
        BY <1>4, BlockFacts
      <4> QED BY <1>1, <1>6, <3>2, <4>1, <4>2
    <3> QED BY <3>1, <3>2
  <2> QED BY <2>1, <2>2, <2>3 DEF Tiled
<1>10. ASSUME NEW a \in Blocks(r) \ {c}, Tagged(h, a) PROVE Tagged(r, a)
  <2>1. a \in Blocks(h) /\ a # n /\ Behind(h, a) \in Addr
    BY <1>4, BlockFacts
  <2>2. a \in FreeBlocks(r) <=> a \in FreeBlocks(h)
    BY <1>5, <2>1
  <2>3. r.prevSize[Behind(r, a)] = h.prevSize[Behind(h, a)]
    BY <1>2, <1>7, <1>8, <2>1
  <2> QED BY <1>7, <1>10, <2>2, <2>3 DEF Tagged
<1> QED BY <1>1, <1>3, <1>4, <1>5, <1>6, <1>7, <1>9, <1>10

\* The headers that Absorb writes.
LEMMA AbsorbFacts ==
  ASSUME NEW h \in HeapType, NEW d \in HeapType, NEW c \in Addr, NEW n \in Addr,
         d.next = h.next, d.size = h.size, d.prevSize = h.prevSize
  PROVE  LET r == Absorb(d, c, n)
         IN  /\ r \in HeapType /\ Fused(h, r, c, n)
             /\ r.list = d.list /\ r.bitMap = d.bitMap
<1> DEFINE r == Absorb(d, c, n)
           sz == [d.size EXCEPT ![c] = d.size[c] + d.size[n], ![n] = 0]
           nx == [d.next EXCEPT ![n] = "NULL"]
           ps == [d.prevSize EXCEPT ![n] = 0]
<1>1. r = [d EXCEPT !.size = sz, !.next = nx, !.prevSize = ps]
  BY DEF Absorb, HeapType
<1>2. /\ sz \in [Addr -> Nat] /\ nx \in [Addr -> {"NULL", "LIST", "USED"}]
      /\ ps \in [Addr -> Nat]
  <2>1. /\ d.size \in [Addr -> Nat] /\ d.prevSize \in [Addr -> Nat]
        /\ d.next \in [Addr -> {"NULL", "LIST", "USED"}]
    BY DEF HeapType
  <2>2. d.size[c] + d.size[n] \in Nat
    BY <2>1
  <2> QED BY <2>1, <2>2
<1>3. /\ sz = [[h.size EXCEPT ![c] = h.size[c] + h.size[n]] EXCEPT ![n] = 0]
      /\ nx = [h.next EXCEPT ![n] = "NULL"] /\ ps = [h.prevSize EXCEPT ![n] = 0]
  OBVIOUS
<1>4. d \in HeapType
  OBVIOUS
<1> HIDE DEF r, sz, nx, ps
<1>5. /\ r \in HeapType /\ r.size = sz /\ r.next = nx /\ r.prevSize = ps
      /\ r.list = d.list /\ r.bitMap = d.bitMap
  BY <1>1, <1>2, <1>4 DEF HeapType
<1> QED BY <1>3, <1>5 DEF Fused, r

\* A free block behind is taken into c.
LEMMA MergeNextFacts ==
  ASSUME NEW h, NEW c, Open(h, c)
  PROVE  LET r == MergeNext(h, c)
         IN  /\ Open(r, c) /\ UsersKept(h, c, r, c)
             /\ r.prevSize[c] = h.prevSize[c]
             /\ Behind(r, c) \notin FreeBlocks(r)
<1> DEFINE r == MergeNext(h, c)
           n == Behind(h, c)
<1>0. h \in HeapType /\ Closed(h) /\ Tiled(h) /\ c \in Blocks(h)
  BY DEF Open
<1>1. CASE h.next[n] = "USED"
  <2>1. r = h
    BY <1>1 DEF MergeNext, Behind
  <2> QED BY <1>1, <2>1 DEF Open, UsersKept, FreeBlocks, Blocks
<1>2. CASE h.next[n] # "USED"
  <2> DEFINE d == OsFscMemDelete(h, n)
  <2>1. /\ c \in Addr /\ n \in Addr /\ c # n /\ n # End /\ c \in Nat /\ n \in Nat /\ c < n
    BY <1>0, <1>2, BlockFacts DEF Closed
  <2>2. n \in Blocks(h) /\ n \in FreeBlocks(h)
    BY <1>0, <1>2, <2>1 DEF Tiled, FreeBlocks
  <2>3. /\ d \in HeapType /\ d.next = h.next /\ d.size = h.size
        /\ d.prevSize = h.prevSize /\ d.bitMap = h.bitMap
        /\ Listed(d, (FreeBlocks(h) \ {c}) \ {n}) /\ BitsOn(d)
    BY <2>1, DeleteFacts DEF Open
  <2>4. r = Absorb(d, c, n)
    BY <1>2 DEF MergeNext, Behind
  <2> HIDE DEF d, r
  <2>5. /\ r \in HeapType /\ Fused(h, r, c, n)
        /\ r.list = d.list /\ r.bitMap = d.bitMap
    BY <1>0, <2>1, <2>3, <2>4, AbsorbFacts
  <2>6. /\ Closed(r) /\ Tiled(r)
        /\ Blocks(r) = Blocks(h) \ {n}
        /\ FreeBlocks(r) = FreeBlocks(h) \ {n}
        /\ UsedBlocks(r) = UsedBlocks(h) \ {n}
        /\ Behind(r, c) = Behind(h, n)
        /\ \A a \in Blocks(r) \ {c} :
             /\ r.size[a] = h.size[a]
             /\ Behind(r, a) = Behind(h, a)
             /\ Tagged(h, a) => Tagged(r, a)
    BY <1>0, <2>2, <2>5, FuseFacts
  <2>7. Listed(r, FreeBlocks(r) \ {c})
    <3>1. (FreeBlocks(h) \ {c}) \ {n} = FreeBlocks(r) \ {c}
      BY <2>6
    <3>2. \A a \in FreeBlocks(r) \ {c} : r.size[a] = d.size[a]
      BY <2>3, <2>6 DEF FreeBlocks
    <3> QED BY <2>3, <2>5, <3>1, <3>2, ListedFrame
  <2>8. Open(r, c)
    <3>1. BitsOn(r)
      BY <2>3, <2>5 DEF BitsOn
    <3>2. c \in Blocks(r) /\ \A a \in Blocks(r) \ {c} : Tagged(r, a)
      BY <1>0, <2>1, <2>6 DEF Open
    <3>3. \A a \in FreeBlocks(r) \ {c} : Behind(r, a) \notin FreeBlocks(r) \ {c}
      BY <2>6 DEF Open, FreeBlocks
    <3> QED BY <2>5, <2>6, <2>7, <3>1, <3>2, <3>3 DEF Open
  <2>9. UsersKept(h, c, r, c)
    BY <2>2, <2>6 DEF UsersKept, UsedBlocks, FreeBlocks
  <2>10. r.prevSize[c] = h.prevSize[c]
    BY <1>0, <2>1, <2>5 DEF Fused, HeapType
  <2>11. Behind(r, c) \notin FreeBlocks(r)
    <3>1. Behind(h, n) \notin FreeBlocks(h) \ {c}
      BY <2>1, <2>2 DEF Open
    <3>2. Behind(h, n) # c
      BY <1>0, <2>1, <2>2, BlockFacts
    <3> QED BY <2>6, <3>1, <3>2
  <2> QED BY <2>8, <2>9, <2>10, <2>11 DEF r
<1> QED BY <1>1, <1>2


\* A block in front of c that is free takes c in; the tag says which one it is.
LEMMA MergePrevFacts ==
  ASSUME NEW h, NEW c, Open(h, c), Behind(h, c) \notin FreeBlocks(h)
  PROVE  LET r == MergePrev(h, c)
             p == c - h.prevSize[c]
         IN  /\ Open(r, p) /\ UsersKept(h, c, r, p)
             /\ Behind(r, p) \notin FreeBlocks(r)
             /\ \A a \in FreeBlocks(r) \ {p} : Behind(r, a) # p
<1> DEFINE r == MergePrev(h, c)
           p == c - h.prevSize[c]
<1>0. h \in HeapType /\ Closed(h) /\ Tiled(h) /\ c \in Blocks(h)
  BY DEF Open
<1>1. c \in Addr /\ c \in Nat /\ c # End /\ h.size[c] \in Nat \ {0}
  BY <1>0, BlockFacts, ConstantFacts
<1>2. CASE h.prevSize[c] = 0
  <2>1. r = h /\ p = c
    BY <1>1, <1>2 DEF MergePrev
  <2>2. ASSUME NEW a \in FreeBlocks(h) \ {c}, Behind(h, a) = c PROVE FALSE
    <3>1. Tagged(h, a) /\ h.size[a] # 0
      BY DEF Open, FreeBlocks, Blocks
    <3> QED BY <1>1, <1>2, <2>2, <3>1 DEF Tagged
  <2> QED BY <2>1, <2>2 DEF UsersKept
<1>3. CASE h.prevSize[c] # 0
  <2>1. PICK q \in Blocks(h) : Behind(h, q) = c
    BY <1>0, <1>3, Predecessor DEF Closed
  <2>2. q \in Nat /\ h.size[q] \in Nat \ {0} /\ q < c /\ q \in Addr
    BY <1>0, <2>1, BlockFacts
  <2>3. q \in FreeBlocks(h) /\ h.prevSize[c] = h.size[q]
    BY <1>1, <1>3, <2>1, <2>2 DEF Open, Tagged
  <2>4. q = p
    BY <2>1, <2>2, <2>3 DEF Behind
  <2> DEFINE d == OsFscMemDelete(h, q)
  <2>5. r = Absorb(d, q, c)
    BY <1>3, <2>4 DEF MergePrev
  <2>6. /\ d \in HeapType /\ d.next = h.next /\ d.size = h.size
        /\ d.prevSize = h.prevSize /\ d.bitMap = h.bitMap
        /\ Listed(d, (FreeBlocks(h) \ {c}) \ {q}) /\ BitsOn(d)
    BY <2>2, DeleteFacts DEF Open
  <2> HIDE DEF d, r, p
  <2>7. /\ r \in HeapType /\ Fused(h, r, q, c)
        /\ r.list = d.list /\ r.bitMap = d.bitMap
    BY <1>0, <1>1, <2>2, <2>5, <2>6, AbsorbFacts
  <2>8. /\ Closed(r) /\ Tiled(r)
        /\ Blocks(r) = Blocks(h) \ {c}
        /\ FreeBlocks(r) = FreeBlocks(h) \ {c}
        /\ UsedBlocks(r) = UsedBlocks(h) \ {c}
        /\ Behind(r, q) = Behind(h, c) /\ q # c
        /\ \A a \in Blocks(r) \ {q} :
             /\ r.size[a] = h.size[a]
             /\ Behind(r, a) = Behind(h, a)
             /\ Tagged(h, a) => Tagged(r, a)
    BY <1>0, <2>1, <2>7, FuseFacts
  <2>9. Listed(r, FreeBlocks(r) \ {q})
    <3>1. \A a \in FreeBlocks(r) \ {q} : r.size[a] = d.size[a]
      BY <2>6, <2>8 DEF FreeBlocks
    <3> QED BY <2>6, <2>7, <2>8, <3>1, ListedFrame
  <2>10. \A a \in FreeBlocks(r) \ {q} : Behind(r, a) \notin FreeBlocks(r)
    BY <2>8 DEF Open, FreeBlocks
  <2>11. Open(r, q)
    <3>1. BitsOn(r)
      BY <2>6, <2>7 DEF BitsOn
    <3>2. q \in Blocks(r) /\ \A a \in Blocks(r) \ {q} : Tagged(r, a)
      BY <2>1, <2>8 DEF Open
    <3> QED BY <2>7, <2>8, <2>9, <2>10, <3>1, <3>2 DEF Open
  <2>12. UsersKept(h, c, r, q)
    BY <2>3, <2>8 DEF UsersKept, UsedBlocks, FreeBlocks
  <2>13. \A a \in FreeBlocks(r) \ {q} : Behind(r, a) # q
    BY <2>3, <2>8, <2>10
  <2>14. Behind(r, q) \notin FreeBlocks(r)
    BY <2>8
  <2> QED BY <2>4, <2>11, <2>12, <2>13, <2>14 DEF r, p
<1> QED BY <1>2, <1>3

\* A heap between two calls.
Sound(h) ==
  /\ h \in HeapType /\ Closed(h) /\ Tiled(h) /\ BitsOn(h)
  /\ \A a \in Blocks(h) : Tagged(h, a)
  /\ \A a \in FreeBlocks(h) : Behind(h, a) \notin FreeBlocks(h)
  /\ Listed(h, FreeBlocks(h))

\* Linking the merged block in, and telling the block behind its size.
LEMMA CloseFacts ==
  ASSUME NEW h, NEW c, Open(h, c), Behind(h, c) \notin FreeBlocks(h),
         \A a \in FreeBlocks(h) \ {c} : Behind(h, a) # c
  PROVE  LET i == OsFscMemInsert(h, c)
             r == [i EXCEPT !.prevSize[c + i.size[c]] = i.size[c]]
         IN  /\ Sound(r)
             /\ UsedBlocks(r) = UsedBlocks(h) \ {c}
             /\ r.size = h.size
<1> DEFINE i == OsFscMemInsert(h, c)
           n == Behind(h, c)
           r == [i EXCEPT !.prevSize[c + i.size[c]] = i.size[c]]
           F == FreeBlocks(h) \ {c}
<1>0. h \in HeapType /\ Closed(h) /\ Tiled(h) /\ BitsOn(h) /\ c \in Blocks(h) /\ Listed(h, F)
  BY DEF Open
<1>1. /\ c \in Addr /\ n \in Addr /\ c # n /\ n # Start /\ c # End
      /\ h.size[c] \in Nat \ {0} /\ n # c
  BY <1>0, BlockFacts, ConstantFacts
<1>2. /\ i \in HeapType /\ i.next = [h.next EXCEPT ![c] = "LIST"] /\ i.size = h.size
      /\ i.prevSize = h.prevSize /\ Listed(i, F \cup {c}) /\ BitsOn(i)
  <2>1. c \notin F /\ h.size[c] # 0
    BY <1>1
  <2> HIDE DEF F
  <2> QED BY <1>0, <1>1, <2>1, InsertFacts
<1>3. /\ r \in HeapType /\ r.next = i.next /\ r.size = h.size /\ r.list = i.list
      /\ r.bitMap = i.bitMap /\ r.prevSize = [h.prevSize EXCEPT ![n] = h.size[c]]
  <2> DEFINE ps == [h.prevSize EXCEPT ![n] = h.size[c]]
  <2>1. r = [i EXCEPT !.prevSize = ps]
    BY <1>2 DEF Behind
  <2>2. ps \in [Addr -> Nat]
    BY <1>0, <1>1 DEF HeapType
  <2>3. i \in HeapType /\ i.size = h.size
    BY <1>2
  <2> HIDE DEF i, r, ps
  <2> QED BY <2>1, <2>2, <2>3 DEF HeapType, ps
<1> HIDE DEF i, r
<1>4. /\ \A a \in Addr : r.next[a] = IF a = c THEN "LIST" ELSE h.next[a]
      /\ \A a \in Addr : r.prevSize[a] = IF a = n THEN h.size[c] ELSE h.prevSize[a]
      /\ \A a : r.size[a] = h.size[a]
  BY <1>0, <1>1, <1>2, <1>3 DEF HeapType
<1>5. Blocks(r) = Blocks(h) /\ \A a : Behind(r, a) = Behind(h, a)
  BY <1>4 DEF Blocks, Behind
<1>6. FreeBlocks(r) = F \cup {c} /\ UsedBlocks(r) = UsedBlocks(h) \ {c}
  BY <1>0, <1>4, <1>5 DEF FreeBlocks, UsedBlocks, Blocks
<1>7. Closed(r)
  BY <1>0, <1>1, <1>4, ConstantFacts DEF Closed
<1>8. Tiled(r)
  BY <1>0, <1>5 DEF Tiled
<1>9. BitsOn(r)
  BY <1>2, <1>3 DEF BitsOn
<1>10. ASSUME NEW a \in Blocks(r) PROVE Tagged(r, a)
  <2>1. CASE a = c
    BY <1>1, <1>4, <1>5, <1>6, <2>1 DEF Tagged
  <2>2. CASE a # c
    <3>1. Behind(h, a) # n /\ Behind(h, a) \in Addr
      BY <1>0, <1>5, <2>2, BehindInjective, BlockFacts
    <3>2. Tagged(h, a) /\ (a \in FreeBlocks(r) <=> a \in FreeBlocks(h))
      BY <1>5, <1>6, <2>2 DEF Open
    <3> QED BY <1>4, <1>5, <3>1, <3>2 DEF Tagged
  <2> QED BY <2>1, <2>2
<1>11. \A a \in FreeBlocks(r) : Behind(r, a) \notin FreeBlocks(r)
  BY <1>1, <1>5, <1>6 DEF Open
<1>12. Listed(r, FreeBlocks(r))
  <2>1. Listed(i, F \cup {c}) /\ r.list = i.list /\ \A a \in F \cup {c} : r.size[a] = i.size[a]
    BY <1>2, <1>3
  <2> QED BY <1>6, <2>1, ListedFrame
<1> QED BY <1>3, <1>6, <1>7, <1>8, <1>9, <1>10, <1>11, <1>12 DEF Sound, r, i
=============================================================================
