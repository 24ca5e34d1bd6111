------------------------------- MODULE FscMem -------------------------------
(***************************************************************************)
(* The FSC allocator.  The heap is a row of blocks, each with a header at  *)
(* its start; a header also holds the size of the block before it if that  *)
(* one is free.  Free blocks hang in one list per power of two.  A bit per *)
(* list says that it may hold a block; only a search finds that a list is  *)
(* empty and clears its bit.                                               *)
(*                                                                         *)
(* Sizes and addresses are counted in words (OS_MEM_ADDR_ALIGN).  Every    *)
(* call runs with interrupts locked.  A pointer leads back to its header   *)
(* by the half-word in front of the user's area; in a free block the last  *)
(* word of the header, prev, is a link.                                    *)
(***************************************************************************)
EXTENDS Integers, Sequences, SequencesExt, FiniteSetsExt

CONSTANTS Start,      \* g_memStartAddr
          HeapSize,   \* size of the partition
          LastIdx,    \* OS_FSC_MEM_LAST_IDX, in words
          Request,    \* bound: the [size, align] that callers ask for
          LinkHalf,   \* what the half-word of a link reads as
          MaxOverrun  \* bound: areas that are written over their end

HeadSize == 4           \* OS_FSC_MEM_USED_HEAD_SIZE, struct TagFscMemCtrl
TailSize == 1           \* OS_FSC_MEM_TAIL_SIZE
MinSize == HeadSize + 1   \* OS_FSC_MEM_MIN_SIZE
MaxVal == 2 ^ LastIdx - 1

\* enum MemAlign, from 8 bytes to 16K; 4 bytes become 8.
Alignments == {1, 2, 4, 8, 16, 32, 64, 128, 256, 512, 1024, 2048}

ASSUME FscMemAssumption ==
  /\ Start \in Nat /\ HeapSize \in Nat /\ LastIdx \in Nat
  /\ LinkHalf \in Nat /\ MaxOverrun \in Nat
  /\ 2 * HeadSize <= HeapSize /\ HeapSize <= MaxVal   \* the two headers are apart
  /\ Request \subseteq [size : Nat \ {0}, align : Alignments]

VARIABLES heap,    \* the fields next, size and prevSize of the header at each address,
                   \* list for g_fscMemNodeList, and bitMap for g_fscMemBitMap
          offset,  \* the half-word in front of each address
          usage,   \* g_memUsage
          held     \* the callers' pointers [blk, addr, size, tail]

fscVars == <<heap, offset, usage, held>>

End  == Start + HeapSize - HeadSize
Addr == Start .. End
Idx  == 0 .. LastIdx - 1

OS_FSC_MEM_SZ2IDX(size) == Max({i \in Idx : 2 ^ i <= size})

\* One free block, and a header at the end that no block merges with.
OsFscMemInit ==
  LET size == HeapSize - HeadSize
      idx  == OS_FSC_MEM_SZ2IDX(size)
  IN  /\ heap = [next |-> [a \in Addr |->
                    IF a = Start THEN "LIST" ELSE IF a = End THEN "USED" ELSE "NULL"],
                 size |-> [a \in Addr |-> IF a = Start THEN size ELSE 0],
                 prevSize |-> [a \in Addr |-> 0],
                 list |-> [i \in Idx |-> IF i = idx THEN <<Start>> ELSE << >>],
                 bitMap |-> {idx}]
      /\ offset = [a \in Addr |-> IF a = Start + HeadSize THEN LinkHalf ELSE 0]
      /\ usage = 0
      /\ held = {}

----------------------------------------------------------------------------
(* The lists.                                                              *)

OsFscMemDelete(h, blk) ==
  [h EXCEPT !.list = [i \in Idx |-> RemoveFirst(@[i], blk)]]

OsFscMemInsert(h, blk) ==
  LET idx == OS_FSC_MEM_SZ2IDX(h.size[blk])
  IN  [h EXCEPT !.list[idx] = <<blk>> \o @,
                !.bitMap = @ \cup {idx},
                !.next[blk] = "LIST"]

\* After a call that leads to heap h: prev is a link in the blocks that hang in a list,
\* and headers that were merged away are zeroed.  Half-words that belong to no pointer
\* are not kept: they are written before they are read.
Links(h) ==
  LET hanging == UNION {ToSet(h.list[i]) : i \in Idx}
      gone    == {a \in Addr : heap.size[a] # 0 /\ h.size[a] = 0}
      kept    == {p.addr : p \in held}
  IN  [a \in Addr |-> IF a - HeadSize \in hanging THEN LinkHalf
                      ELSE IF a \in kept /\ a - HeadSize \notin gone THEN offset[a]
                      ELSE 0]

\* The distance of a user's area from the end of its header; in bytes it is a U16.
OsMemSetHeadAddr(usrAddr, ctrlAddr) == (usrAddr - ctrlAddr) % 8192

OsMemGetHeadAddr(usrAddr) == usrAddr - offset[usrAddr] - HeadSize

\* The lists of larger blocks that the search finds not empty.
Larger(size) ==
  {i \in heap.bitMap : i > OS_FSC_MEM_SZ2IDX(size) /\ heap.list[i] # << >>}

\* The bits that the search clears on its way to the first of them.
Cleared(size) ==
  {i \in heap.bitMap : /\ i > OS_FSC_MEM_SZ2IDX(size)
                       /\ heap.list[i] = << >>
                       /\ \A j \in Larger(size) : i < j}

\* Mutant: of the list of the request's own size only the first block is tried.
OsFscMemSearch_FirstOnly(size) ==
  LET own == heap.list[OS_FSC_MEM_SZ2IDX(size)]
  IN  IF Larger(size) # {} THEN {heap.list[Min(Larger(size))][1]}
      ELSE {own[i] : i \in {j \in DOMAIN own : j = 1 /\ heap.size[own[j]] >= size}}

\* The block found, or none: any block of a larger list will do, and of the list of
\* its own size the first that is large enough.
OsFscMemSearch(size) ==
  LET own  == heap.list[OS_FSC_MEM_SZ2IDX(size)]
      fits == {i \in DOMAIN own : heap.size[own[i]] >= size}
  IN  IF Larger(size) # {} THEN {heap.list[Min(Larger(size))][1]}
      ELSE IF fits # {} THEN {own[Min(fits)]}
      ELSE {}

----------------------------------------------------------------------------
(* Allocation.                                                             *)

\* Mutant: no room to move the user's area to an aligned address.
AllocSize_NoSlack(req) == req.size + HeadSize + TailSize

AllocSize(req) == req.size + (req.align - 1) + HeadSize + TailSize

\* The first aligned address behind the header.
UsrAddr(blk, align) ==
  LET a == blk + HeadSize + align - 1 IN a - (a % align)

\* The end of a block becomes the new one; what is left changes lists if need be.  The
\* search returned in idx the list of the block, the one of its size.
Split(h, blk, size) ==
  LET left  == h.size[blk] - size
      short == [h EXCEPT !.size[blk] = left]
      moved == IF OS_FSC_MEM_SZ2IDX(left) = OS_FSC_MEM_SZ2IDX(left + size) THEN short
               ELSE OsFscMemInsert(OsFscMemDelete(short, blk), blk)
  IN  [moved EXCEPT !.size[blk + left] = size, !.prevSize[blk + left] = left]

\* The block behind learns that blk is not free.
MarkUsed(h, blk) ==
  [h EXCEPT !.prevSize[blk + h.size[blk]] = 0, !.next[blk] = "USED"]

OsFscMemAllocInner(req) ==
  LET size     == AllocSize(req)
      searched == [heap EXCEPT !.bitMap = @ \ Cleared(size)]
  IN  /\ size < MaxVal - HeadSize - TailSize
      /\ \/ /\ OsFscMemSearch(size) = {}
            /\ heap' = searched
            /\ UNCHANGED <<offset, usage, held>>
         \/ \E found \in OsFscMemSearch(size) :
              LET split == heap.size[found] >= size + MinSize
                  blk   == IF split THEN found + heap.size[found] - size ELSE found
                  h     == IF split THEN Split(searched, found, size)
                           ELSE OsFscMemDelete(searched, found)
                  ctrl  == blk + HeadSize
                  addr  == UsrAddr(blk, req.align)
              IN  /\ heap' = MarkUsed(h, blk)
                  /\ offset' = [Links(heap') EXCEPT ![ctrl] = 0,
                                                    ![addr] = OsMemSetHeadAddr(addr, ctrl)]
                  /\ usage' = usage + h.size[blk]
                  /\ held' = held \cup {[blk |-> blk, addr |-> addr,
                                         size |-> req.size, tail |-> "MAGIC"]}

----------------------------------------------------------------------------
(* Release.                                                                *)

\* Mutant: the header of a block that goes into the one before it is left as it is.
MergePrev_KeepsHeader(h, blk) ==
  LET prev == blk - h.prevSize[blk]
  IN  IF h.prevSize[blk] = 0 THEN h
      ELSE OsFscMemDelete([h EXCEPT !.size[prev] = @ + h.size[blk]], prev)

\* Block into grows by blk, whose header is zeroed.
Absorb(h, into, blk) ==
  [h EXCEPT !.size = [@ EXCEPT ![into] = h.size[into] + h.size[blk], ![blk] = 0],
            !.next = [@ EXCEPT ![blk] = "NULL"],
            !.prevSize = [@ EXCEPT ![blk] = 0]]

\* A free block behind is taken into blk.
MergeNext(h, blk) ==
  LET next == blk + h.size[blk]
  IN  IF h.next[next] = "USED" THEN h
      ELSE Absorb(OsFscMemDelete(h, next), blk, next)

\* A free block in front takes blk in.
MergePrev(h, blk) ==
  LET prev == blk - h.prevSize[blk]
  IN  IF h.prevSize[blk] = 0 THEN h
      ELSE Absorb(OsFscMemDelete(h, prev), prev, blk)

\* A call with a pointer whose block is not in use, or whose tail word was written
\* over, is refused and changes nothing.
OsFscMemFree(addr) ==
  LET blk  == OsMemGetHeadAddr(addr)
      curr == blk - heap.prevSize[blk]
      h    == OsFscMemInsert(MergePrev(MergeNext(heap, blk), blk), curr)
      size == h.size[curr]
  IN  /\ heap.next[blk] = "USED" /\ heap.size[blk] # 0
      /\ \A p \in held : p.blk = blk => p.tail = "MAGIC"
      /\ heap' = [h EXCEPT !.prevSize[curr + size] = size]
      /\ offset' = Links(heap')
      /\ usage' = usage - heap.size[blk]
      /\ held' = {p \in held : p.blk # blk}

\* A caller writes one word too many.
Overrun(p) ==
  /\ Cardinality({q \in held : q.tail = "OVERWRITTEN"}) < MaxOverrun
  /\ held' = (held \ {p}) \cup {[p EXCEPT !.tail = "OVERWRITTEN"]}
  /\ UNCHANGED <<heap, offset, usage>>

----------------------------------------------------------------------------
FscMemNext ==
  \/ \E req \in Request : OsFscMemAllocInner(req)
  \/ \E p \in held : OsFscMemFree(p.addr)
  \/ \E p \in held : Overrun(p)

FscMemSpec == OsFscMemInit /\ [][FscMemNext]_fscVars

----------------------------------------------------------------------------
(* Properties.                                                             *)

Behind(h, a) == a + h.size[a]

Blocks(h) == {a \in Addr : h.size[a] # 0}
FreeBlocks(h) == {a \in Blocks(h) : h.next[a] # "USED"}
UsedBlocks(h) == {a \in Blocks(h) : h.next[a] = "USED"}

\* From the first block on each one begins where the one before it ends, and nothing
\* else looks like a block.
Tiled(h) ==
  /\ Start \in Blocks(h)
  /\ \A a \in Blocks(h) :
       /\ Behind(h, a) \in Blocks(h) \cup {End}
       /\ \A b \in Blocks(h) : b <= a \/ Behind(h, a) <= b

\* The block behind a knows whether a is free, and its size.
Tagged(h, a) ==
  Behind(h, a) # End =>
    h.prevSize[Behind(h, a)] = IF a \in FreeBlocks(h) THEN h.size[a] ELSE 0

\* Each of the blocks hangs once, in the list of its size, and nothing else does.
Listed(h, blks) ==
  \A i \in Idx :
    /\ IsInjective(h.list[i])
    /\ ToSet(h.list[i]) = {a \in blks : OS_FSC_MEM_SZ2IDX(h.size[a]) = i}

HeapSound ==
  /\ Tiled(heap)
  /\ \A a \in Blocks(heap) : Tagged(heap, a)
  /\ \A a \in FreeBlocks(heap) : Behind(heap, a) \notin FreeBlocks(heap)
  /\ Listed(heap, FreeBlocks(heap))
  /\ UsedBlocks(heap) = {p.blk : p \in held}

\* Whatever is allocated and freed, in whatever order: the blocks tile the heap, free
\* neighbours have been merged, each header says exactly whether the block before it is
\* free, and its size, every free block hangs once, in the list of its size, the blocks
\* in use are those the callers hold, and g_memUsage is their sum.
HeapExact ==
  /\ HeapSound
  /\ usage = MapThenSumSet(LAMBDA a : heap.size[a], UsedBlocks(heap))

\* A search fails only if no free block is large enough: no list of larger blocks has
\* lost its bit, and no block of the request's own list is passed over.
AllocComplete ==
  \A req \in Request :
    (\E a \in FreeBlocks(heap) : heap.size[a] >= AllocSize(req))
      => OsFscMemSearch(AllocSize(req)) # {}

\* The half-word that OsMemSetHeadAddr stored leads OsFscMemFree back to the header of
\* each pointer held, whatever its alignment and whatever headers were linked, merged
\* and zeroed around it since.
HeadFound == \A p \in held : OsMemGetHeadAddr(p.addr) = p.blk

\* A caller's area lies, whatever its alignment, between the header and the tail word of
\* its block, so that no two areas meet, and OsFscMemFree finds its header.
AreasApart ==
  /\ \A p \in held :
       /\ p.blk + HeadSize <= p.addr
       /\ p.addr + p.size <= p.blk + heap.size[p.blk] - TailSize
  /\ HeadFound
=============================================================================
